---- MODULE Spec2Model ----
(***************************************************************************)
(* Smart tank backend (backend/server.js) and tank firmware                *)
(* (firmware/smart_tank.ino): telemetry ingestion, status cache,           *)
(* consumption analysis, leak detection and the firmware's alert rules.    *)
(*                                                                         *)
(* Fixed point: lengths (level_cm, tank_height_cm) are held in tenths of a *)
(* centimetre, consumption in 1/10 cm^3 (1e-4 litre), time in              *)
(* milliseconds (Date values) or epoch seconds (the ts field of a          *)
(* message).  Floating point rounding is not modelled.                     *)
(***************************************************************************)
EXTENDS Integers, Sequences, FiniteSets, Bags, TLC

VARIABLES
    now,              \* wall clock of the server, epoch milliseconds
    telemetry,        \* table telemetry: bag of rows
    alerts,           \* table alerts: sequence of rows, id = position
    deviceStatus,     \* the status cache, device id -> status object or Null
    pendingInsert,    \* INSERT statements of processTelemetry not yet executed
    pendingAnalysis,  \* SELECTs of runAnalysis whose callback has not run
    pendingLeak,      \* SELECTs of checkLeakDetection whose callback has not run
    nIngest,          \* number of telemetry messages handled so far
    statusIng,        \* history: which ingestion created the cached object
    derivedIng,       \* history: which ingestion's analysis wrote the derived fields
    last,             \* history: the handler that ran last and what it saw
    \* firmware/smart_tank.ino
    fwPc,             \* position of the firmware in loop()
    connected,        \* client.connected()
    relay,            \* RELAY_PIN is HIGH
    currentData,      \* TankData currentData
    previousData,     \* TankData previousData
    leakAlert, overflowAlert, pumpFaultAlert,
    fwRead,           \* history: the reading as readSensors took it
    fwSent,           \* history: alert types sent by sendAlert in this iteration
    fwStops,          \* history: setPumpState calls of processData in this iteration
    fwOut,            \* history: the last two telemetry messages published
    \* the server process and its MQTT client
    alive,            \* the node process runs (no uncaught exception so far)
    dropped,          \* history: messages onMessage has caught an exception for
    predLast,         \* history: the predictions request answered last
    faults,           \* history: the failures met while handling telemetry
    \* the command channel and firmware/smart_tank_firmware.ino
    nCommands,        \* number of POST /commands requests handled so far
    published,        \* history: the messages published on command topics
    commandBus,       \* command messages the broker holds for delivery
    received,         \* history: the messages mqttCallback has handled
    pumpState,        \* bool pumpState of the firmware
    relayPin,         \* RELAY_PIN is HIGH
    fw2Pc,            \* position of smart_tank_firmware.ino in setup() and loop()
    mqttUp,           \* mqttClient.connected()
    subscribed,       \* the broker holds the subscription to the command topic
    tankLevelCm,      \* float tankLevelCm
    tankPercent,      \* float tankPercent
    flowRateLMin,     \* float flowRateLMin
    fw2Waited,        \* history: milliseconds connectMQTT has spent in delay()
    fw2Failed,        \* history: connection attempts that have failed
    fw2Out,           \* history: the last two telemetry messages published
    \* the startup load of server.js
    pendingDevices,   \* the SELECT on devices at startup has not called back
    pendingLoad       \* devices whose newest-row SELECT has not called back

beVars == <<now, telemetry, alerts, deviceStatus, pendingInsert, pendingAnalysis,
            pendingLeak, nIngest, statusIng, derivedIng, last>>
fwVars == <<fwPc, connected, relay, currentData, previousData, leakAlert,
            overflowAlert, pumpFaultAlert, fwRead, fwSent, fwStops, fwOut>>
apiVars == <<alive, dropped, predLast, faults>>
fw2Vars == <<fw2Pc, mqttUp, subscribed, tankLevelCm, tankPercent, flowRateLMin,
             fw2Waited, fw2Failed, fw2Out>>
cmdVars == <<nCommands, published, commandBus, received, pumpState, relayPin, fw2Vars>>
startVars == <<pendingDevices, pendingLoad>>
vars == <<beVars, fwVars, apiVars, cmdVars, startVars>>

\* ------------------------------------------------------------------ bounds
MaxIngest == 2        \* telemetry messages handled in one run
MaxStored == 3        \* rows of a stored history
MaxTicks == 1         \* days the clock advances in one run
MaxAlerts == 2        \* alert messages handled in one run
MaxHistory == 4       \* rows of the history a forecast is made from
MaxMalformed == 1     \* unparseable messages received in one run
MaxCommands == 3      \* pump commands issued in one run

MaxRetries == 2       \* connection attempts the broker refuses in one run

\* --------------------------------------------------------------- constants
\* JavaScript null and undefined (records, so that they compare with objects)
Null == [js |-> "null"]
Undefined == [js |-> "undefined"]

DaySecs == 86400
DayMs == 86400000
LevelScale == 10            \* tenths of a centimetre
RecentWindow == 10          \* telemetry.slice(0, 10)
TankAreaCm2 == 7854         \* Math.PI * 50 * 50, rounded
TankCapacityLiters == 1178  \* const tankCapacity = 1178
MinAnalysisRows == 2        \* rows.length < 2 -> return

\* firmware/smart_tank.ino; percent_full is held in 1/PctScale percent, which
\* makes 100 * (1 - level / 150) exact for levels in tenths of a centimetre,
\* and flow_l_min in hundredths of a litre per minute.
PctScale == 15
FlowScale == 100
TANK_HEIGHT_CM == 150 * LevelScale
LEAK_THRESHOLD_PERCENT == 1
OVERFLOW_THRESHOLD_PERCENT == 95
NoFlowLimit == 10           \* flow_l_min < 0.1

\* firmware/smart_tank_firmware.ino; tankPercent is held in 1/Pct2Scale
\* percent, which makes (DISTANCE_FULL - distance) / 95 * 100 exact for
\* distances in tenths of a centimetre.
Pct2Scale == 19
DISTANCE_EMPTY == 5 * LevelScale
DISTANCE_FULL == 100 * LevelScale
PumpOnBelow == 20           \* tankPercent < 20.0
PumpOffAbove == 80          \* tankPercent > 80.0
ReconnectDelayMs == 5000    \* delay(5000)

Devices == {"tank01", "tank02"}

\* The devices table as the seed script leaves it: tank01 only.
DeviceTable ==
    [d \in {"tank01"} |->
        [device_id |-> d, tank_height_cm |-> 150 * LevelScale,
         tank_diameter_cm |-> 100 * LevelScale, tank_capacity_liters |-> 1178,
         leak_threshold_percent |-> 1, overflow_threshold_percent |-> 95]]

\* Clock at start: noon of day 10.
NowStart == 10 * DayMs + (DayMs \div 2)

Min(a, b) == IF a < b THEN a ELSE b
Max(a, b) == IF a > b THEN a ELSE b
Abs(x) == IF x < 0 THEN 0 - x ELSE x

\* ------------------------------------------------------------------ inputs
\* A telemetry payload as a device publishes it (spec section 6); percent_full
\* follows the level as in the seed script (level / 150 * 100).
Payload(d, ts, lvl, pump) ==
    [device_id |-> d, ts |-> ts, level_cm |-> lvl,
     tank_height_cm |-> 150 * LevelScale,
     percent_full |-> (lvl * 100) \div (150 * LevelScale),
     flow_l_min |-> IF pump = "ON" THEN 12 ELSE 0,
     pump_state |-> pump, temperature_c |-> 22, tds_ppm |-> 250]

PumpValues == {"ON", "OFF"}

\* Messages arriving on tank/telemetry: sent at noon of the day before the
\* start and at 01:00 of the start day, in any order.
TsValues == {9 * DaySecs + 43200, 10 * DaySecs + 3600}
LevelValues == {0, 1500}
Tank01Payloads ==
    { Payload("tank01", ts, lvl, pump) :
        ts \in TsValues, lvl \in LevelValues, pump \in PumpValues }
Tank02Payloads ==
    { Payload("tank02", 10 * DaySecs + 3600, lvl, "OFF") : lvl \in LevelValues }
Payloads == Tank01Payloads \cup Tank02Payloads

\* Stored history of a device: also a record older than 7 days, a third
\* timestamp inside the window, and levels 1% and 33% below the top.
HistoryTsValues == {2 * DaySecs + 43200, 8 * DaySecs + 43200} \cup TsValues
HistoryLevelValues == {0, 1000, 1485, 1500}
HistoryPayloads ==
    { Payload("tank01", ts, lvl, pump) :
        ts \in HistoryTsValues, lvl \in HistoryLevelValues, pump \in PumpValues }
    \cup Tank02Payloads

\* What the sensors of the firmware return: the ultrasonic distance (tenths
\* of a centimetre; below zero and beyond the tank height included) and the
\* flow (hundredths of a litre per minute).
FwLevelValues == {-10, 60, 75, 90, 750, 1500, 1600}
FwFlowValues == {0, 5, 10, 1200}
\* What client.loop() delivers on tank/control: nothing, or {"pump": b}.
FwCommands == {"none", "pump_on", "pump_off"}

\* Distances at and next to the two thresholds of the pump control: 81, 80,
\* 20 and 18.9 percent full.
PumpDistances == {230, 240, 810, 820}

\* What getDistanceCM returns (tenths of a centimetre): no echo, distances
\* that give 80 % and 20 % and their neighbours, beyond the tank height; a
\* negative value stands for a reading the conversion cannot give.
Fw2Distances == {-10, 0, 230, 240, 810, 820, 1600}
\* The actions of messages on the command topic, any client can publish
\* there: the two the firmware knows and one it does not.
BusActions == {"PUMP_ON", "PUMP_OFF", "PUMP_TOGGLE"}

\* The topics onMessage is subscribed to.
Topics == {"tank/telemetry", "tank/alerts"}
\* Telemetry of a run in which steps of the handling fail: tank01 falls from
\* full to empty with the pump off, tank02 (no row in devices) reports a level.
FaultPayloads ==
    {Payload("tank01", 9 * DaySecs + 43200, 1500, "OFF"),
     Payload("tank01", 10 * DaySecs + 3600, 0, "OFF"),
     Payload("tank02", 10 * DaySecs + 3600, 1500, "OFF")}
\* How the statements and requests a detection pass issues end.
PassOutcomes == {"ok", "alert_insert_fails", "notification_fails"}

\* Messages arriving on tank/alerts, as sendAlert of the firmware builds them.
AlertTypes == {"OVERFLOW", "PUMP_FAULT"}
AlertPayloads ==
    { [device_id |-> d, alert_type |-> type, message |-> type,
       timestamp |-> 10 * DaySecs + 3600, level_cm |-> 60, percent_full |-> 96] :
        d \in Devices, type \in AlertTypes }
\* The :alertId of a resolve request: ids in use and ids never given out.
AlertIds == 1..(MaxAlerts + 2)

\* The history a forecast is made from: a record older than 30 days (time is
\* counted from the origin of the model, 10.5 days before the start), two
\* timestamps on the day before the start and two on the day of the start.
ForecastPayloads ==
    {Payload("tank01", 0 - 22 * DaySecs, 1500, "OFF"),
     Payload("tank01", 9 * DaySecs + 21600, 1500, "OFF")}
    \cup { Payload("tank01", 9 * DaySecs + 43200, lvl, "OFF") : lvl \in {1000, 1500} }
    \cup { Payload("tank01", 10 * DaySecs + 3600, lvl, "OFF") : lvl \in {1000, 1500} }
    \cup { Payload("tank01", 10 * DaySecs + 21600, lvl, "OFF") : lvl \in {0, 1000} }
\* req.query.days_ahead as it arrives, the digits of a number.
DaysAheadQueries == {"0", "2"}
\* Forecast requests: for tank01, and for a device that has sent nothing.
PredictRequests ==
    { <<"tank01", query>> : query \in DaysAheadQueries } \cup {<<"tank02", "2">>}

\* A leak and what follows it: the record stored before the leak (full tank,
\* inside the 7-day window by less or by more than a day), and the messages
\* after the drop, which report the same empty tank.
LeakOlderPayloads ==
    { Payload("tank01", ts, 1500, "OFF") : ts \in {3 * DaySecs + 64800, 9 * DaySecs + 43200} }
LeakRunPayloads ==
    { Payload("tank01", ts, 0, "OFF") : ts \in {10 * DaySecs + 3600, 10 * DaySecs + 7200} }

\* A float computed by a division is held as the exact fraction num / den.
Frac(n, d) == [num |-> n, den |-> d]

\* --------------------------------------------------------------- date/time
\* new Date(ts * 1000)
DateOfTs(ts) == ts * 1000
\* moment(x).startOf('day')
StartOfDay(ms) == (ms \div DayMs) * DayMs

\* --------------------------------------------------------------------- SQL
\* Every enumeration of the rows of a bag.
RowOrders(B) ==
    LET S == BagToSet(B)
        n == BagCardinality(B)
    IN  { s \in [1..n -> S] :
            \A x \in S : Cardinality({i \in 1..n : s[i] = x}) = CopiesIn(x, B) }

\* ORDER BY timestamp DESC: rows of equal timestamp come in any order.
OrderByTimestampDesc(B) ==
    { s \in RowOrders(B) :
        \A i \in 1..(Len(s) - 1) : s[i].timestamp >= s[i + 1].timestamp }

\* SELECT * FROM telemetry WHERE device_id = ? AND
\*   timestamp >= datetime('now', '-7 days') ORDER BY timestamp DESC
SelectLastWeek(deviceId) ==
    OrderByTimestampDesc(
        [r \in { x \in DOMAIN telemetry :
                    x.device_id = deviceId /\ x.timestamp >= now - 7 * DayMs }
            |-> telemetry[r]])

\* The row the INSERT of processTelemetry writes.
TelemetryRow(data) ==
    [device_id |-> data.device_id, timestamp |-> DateOfTs(data.ts),
     level_cm |-> data.level_cm, tank_height_cm |-> data.tank_height_cm,
     percent_full |-> data.percent_full, flow_l_min |-> data.flow_l_min,
     pump_state |-> data.pump_state, temperature_c |-> data.temperature_c,
     tds_ppm |-> data.tds_ppm]

\* StatusOf comparing pump_state with the wrong spelling.
StatusOfLowercase(data) ==
    [current_level |-> data.level_cm, percent_full |-> data.percent_full,
     flow_rate |-> data.flow_l_min, pump_state |-> (data.pump_state = "on"),
     temperature |-> data.temperature_c, tds |-> data.tds_ppm,
     last_update |-> DateOfTs(data.ts),
     days_until_empty |-> Undefined, consumption_today |-> Undefined,
     consumption_week |-> Undefined]

\* The object processTelemetry stores in the cache.
StatusOf(data) ==
    [current_level |-> data.level_cm, percent_full |-> data.percent_full,
     flow_rate |-> data.flow_l_min, pump_state |-> (data.pump_state = "ON"),
     temperature |-> data.temperature_c, tds |-> data.tds_ppm,
     last_update |-> DateOfTs(data.ts),
     days_until_empty |-> Undefined, consumption_today |-> Undefined,
     consumption_week |-> Undefined]

\* The object the startup load stores in the cache for the newest stored row
\* of a device.
StatusOfRow(row) ==
    [current_level |-> row.level_cm, percent_full |-> row.percent_full,
     flow_rate |-> row.flow_l_min, pump_state |-> (row.pump_state = "ON"),
     temperature |-> row.temperature_c, tds |-> row.tds_ppm,
     last_update |-> row.timestamp,
     days_until_empty |-> Undefined, consumption_today |-> Undefined,
     consumption_week |-> Undefined]

\* ---------------------------------------------------------------- analysis
\* WindowConsumption taking the two newest rows instead of the two ends.
WindowConsumptionFirstTwo(data) ==
    IF Len(data) >= 2
    THEN [num |-> Abs((data[2].level_cm - data[1].level_cm) * TankAreaCm2),
          den |-> 1000 * LevelScale]
    ELSE [num |-> 0, den |-> 1]

\* Math.abs(levelChange * tankArea / 1000) litres: levelChange is in tenths of
\* a centimetre, so the value is |levelChange| * tankArea / 10000.
WindowConsumption(data) ==
    IF Len(data) >= 2
    THEN Frac(Abs((data[Len(data)].level_cm - data[1].level_cm) * TankAreaCm2),
              1000 * LevelScale)
    ELSE Frac(0, 1)

calculateConsumption(rows) ==
    LET today == StartOfDay(now)
        weekAgo == StartOfDay(now - 7 * DayMs)
        todayData == SelectSeq(rows, LAMBDA t : StartOfDay(t.timestamp) = today)
        weekData == SelectSeq(rows, LAMBDA t : t.timestamp > weekAgo)
    IN  [today |-> WindowConsumption(todayData), week |-> WindowConsumption(weekData)]

\* predictDaysUntilEmpty dividing by a weekly consumption of zero guarded
\* only by Math.max: 0 instead of null.
predictDaysUntilEmptyZero(consumption, status) ==
    IF status = Null \/ status.percent_full = 0 THEN Null
    ELSE IF consumption.week.num <= 0 THEN [num |-> 0, den |-> 1]
    ELSE [num |-> status.percent_full * TankCapacityLiters * 7 * (consumption.week.den \div 100),
          den |-> consumption.week.num]

predictDaysUntilEmpty(consumption, status) ==
    IF status = Null \/ status.percent_full = 0 THEN Null      \* !status.percent_full
    ELSE IF status.percent_full <= 0 THEN Frac(0, 1)
    ELSE IF consumption.week.num <= 0 THEN Null               \* weekly, then daily <= 0
    ELSE \* remainingVolume / dailyConsumption
         \*   = (percent / 100 * tankCapacity) / (week.num / week.den / 7)
         LET n == status.percent_full * TankCapacityLiters * 7 * (consumption.week.den \div 100)
         IN  IF n < 0 THEN Frac(0, 1) ELSE Frac(n, consumption.week.num)

\* ---------------------------------------------------------- leak detection
LeakPair(current, previous, device) ==
    /\ current.pump_state = "OFF"
    /\ previous.pump_state = "OFF"
    /\ current.level_cm < previous.level_cm
    /\ (previous.level_cm - current.level_cm) * 100
          > device.leak_threshold_percent * device.tank_height_cm

\* percentDrop.toFixed(1), in tenths of a percent
PercentDropFixed1(current, previous, device) ==
    (2 * (previous.level_cm - current.level_cm) * 1000 + device.tank_height_cm)
        \div (2 * device.tank_height_cm)

\* LeakAlerts without the break: one alert for every pair that qualifies.
LeakAlertsNoBreak(deviceId, rows, device) ==
    LET recentData == SubSeq(rows, 1, Min(RecentWindow, Len(rows)))
        hits == { i \in 1..(Len(recentData) - 1) :
                    LeakPair(recentData[i], recentData[i + 1], device) }
    IN  [k \in 1..Cardinality(hits) |->
            [device_id |-> deviceId, alert_type |-> "LEAK_DETECTED",
             message |-> <<"Unexpected level drop", 0>>,
             timestamp |-> now, level_cm |-> 0, percent_full |-> 0,
             resolved |-> FALSE]]

\* The alerts one call of the checkLeakDetection callback inserts.
LeakAlerts(deviceId, rows, device) ==
    LET recentData == SubSeq(rows, 1, Min(RecentWindow, Len(rows)))
        hits == { i \in 1..(Len(recentData) - 1) :
                    LeakPair(recentData[i], recentData[i + 1], device) }
    IN  IF hits = {} THEN << >>
        ELSE LET i == CHOOSE k \in hits : \A j \in hits : k <= j
             IN  << [device_id |-> deviceId, alert_type |-> "LEAK_DETECTED",
                     message |-> <<"Unexpected level drop",
                                   PercentDropFixed1(recentData[i], recentData[i + 1], device)>>,
                     timestamp |-> now, level_cm |-> recentData[i].level_cm,
                     percent_full |-> recentData[i].percent_full,
                     resolved |-> FALSE] >>

\* -------------------------------------------------------------- prediction
DefaultDaysAhead == 7
ForecastWindowDays == 30
MinForecastRows == 2

\* parseInt(req.query.days_ahead) || 7: an absent parameter parses to NaN,
\* and NaN and 0 are both falsy.
DaysAheadOf(query) ==
    LET parsed == ("0" :> 0) @@ ("1" :> 1) @@ ("2" :> 2) @@ ("3" :> 3)
    IN  IF query \in DOMAIN parsed /\ parsed[query] # 0
        THEN parsed[query]
        ELSE DefaultDaysAhead

\* moment(x).subtract(days, 'days'), taken in two steps to stay within the
\* 32-bit integers of the model checker.
DaysBefore(ms, days) ==
    (ms - (days \div 2) * DayMs) - (days - days \div 2) * DayMs

\* ORDER BY timestamp ASC.  Rows of equal timestamp come in the order the
\* database has them in, which is the same for the same content of the table.
RECURSIVE OrderByTimestampAsc(_)
OrderByTimestampAsc(B) ==
    IF B = EmptyBag THEN << >>
    ELSE LET r == CHOOSE x \in DOMAIN B : \A y \in DOMAIN B : x.timestamp <= y.timestamp
         IN  <<r>> \o OrderByTimestampAsc(B (-) SetToBag({r}))

\* SELECT * FROM telemetry WHERE device_id = ? AND timestamp >= ?
\*   ORDER BY timestamp ASC, with since = moment().subtract(30, 'days')
SelectLastMonth(deviceId) ==
    OrderByTimestampAsc(
        [r \in { x \in DOMAIN telemetry :
                    /\ x.device_id = deviceId
                    /\ x.timestamp >= DaysBefore(now, ForecastWindowDays) }
            |-> telemetry[r]])

RECURSIVE SumOf(_, _)
SumOf(f, S) ==
    IF S = {} THEN 0
    ELSE LET x == CHOOSE y \in S : TRUE
         IN  f[x] + SumOf(f, S \ {x})

\* calculateDailyConsumption taking the weekly figure of the status cache,
\* when it has one, in place of the stored history.
calculateDailyConsumptionCached(rows) ==
    LET st == deviceStatus[rows[1].device_id]
    IN  IF st # Null /\ st.consumption_week # Undefined
        THEN [num |-> st.consumption_week.num, den |-> st.consumption_week.den * 7]
        ELSE [num |-> 0, den |-> 1]

\* The mean of the per-day consumptions that are above zero; a day's
\* consumption is |last.level_cm - first.level_cm| * tankArea / 1000 of the
\* rows of that day, 0 for a day with one row.
calculateDailyConsumption(rows) ==
    LET days == { StartOfDay(rows[i].timestamp) : i \in 1..Len(rows) }
        dayDrop == [d \in days |->
                      LET data == SelectSeq(rows, LAMBDA t : StartOfDay(t.timestamp) = d)
                      IN  IF Len(data) >= 2
                          THEN Abs(data[Len(data)].level_cm - data[1].level_cm)
                          ELSE 0]
        used == { d \in days : dayDrop[d] > 0 }
    IN  IF used = {} THEN Frac(0, 1)
        ELSE Frac(SumOf(dayDrop, used) * TankAreaCm2,
                  1000 * LevelScale * Cardinality(used))

\* PredictionsBody without the rows.length < 2 return.
PredictionsBodyUnguarded(rows, daysAhead) ==
    [predictions |->
        [i \in 1..daysAhead |->
            [date |-> StartOfDay(now) + (i - 1) * DayMs,
             predicted_consumption |-> [num |-> 0, den |-> 1]]]]

\* The JSON body of GET /devices/:deviceId/predictions; a date is held as the
\* start of its day.
PredictionsBody(rows, daysAhead) ==
    IF Len(rows) < MinForecastRows
    THEN [predictions |-> << >>, message |-> "Insufficient data for predictions"]
    ELSE LET dailyConsumption == calculateDailyConsumption(rows)
         IN  [predictions |->
                 [i \in 1..daysAhead |->
                     [date |-> StartOfDay(now) + (i - 1) * DayMs,
                      predicted_consumption |-> dailyConsumption]]]

\* ---------------------------------------------------------- read endpoints
DefaultHours == 24
HourMs == 3600000
AlertsLimit == 50

\* The body of GET /devices/:deviceId/status for a device the cache has.
StatusBody(deviceId) ==
    LET status == deviceStatus[deviceId]
    IN  [device_id |-> deviceId, current_level |-> status.current_level,
         percent_full |-> status.percent_full, flow_rate |-> status.flow_rate,
         pump_state |-> status.pump_state, temperature |-> status.temperature,
         tds |-> status.tds, last_update |-> status.last_update,
         days_until_empty |-> status.days_until_empty,
         consumption_today |-> status.consumption_today,
         consumption_week |-> status.consumption_week]

\* SELECT * FROM telemetry WHERE device_id = ? AND timestamp >= ?
\*   ORDER BY timestamp DESC, with since = moment().subtract(24, 'hours'),
\* mapped to the fields the route returns.
TelemetryBody(deviceId) ==
    LET asc == OrderByTimestampAsc(
                  [r \in { x \in DOMAIN telemetry :
                              /\ x.device_id = deviceId
                              /\ x.timestamp >= now - DefaultHours * HourMs }
                      |-> telemetry[r]])
    IN  [i \in 1..Len(asc) |->
            LET t == asc[Len(asc) + 1 - i]
            IN  [timestamp |-> t.timestamp, level_cm |-> t.level_cm,
                 percent_full |-> t.percent_full, flow_l_min |-> t.flow_l_min,
                 pump_state |-> t.pump_state, temperature_c |-> t.temperature_c,
                 tds_ppm |-> t.tds_ppm]]

\* The alerts named by ids, newest first; alerts of equal timestamp in the
\* order the database has them in.
RECURSIVE AlertIdsDesc(_)
AlertIdsDesc(ids) ==
    IF ids = {} THEN << >>
    ELSE LET i == CHOOSE x \in ids :
                    \A y \in ids : /\ alerts[x].timestamp >= alerts[y].timestamp
                                    /\ alerts[x].timestamp = alerts[y].timestamp => x <= y
         IN  <<i>> \o AlertIdsDesc(ids \ {i})

\* SELECT * FROM alerts WHERE device_id = ? [AND resolved = ?]
\*   ORDER BY timestamp DESC LIMIT 50, mapped to the fields the route returns;
\* resolved is the query parameter, "" when absent.
AlertsBody(deviceId, resolved) ==
    LET ids == { i \in 1..Len(alerts) :
                    /\ alerts[i].device_id = deviceId
                    /\ resolved # "" => alerts[i].resolved = (resolved = "true") }
        sorted == AlertIdsDesc(ids)
    IN  [k \in 1..Min(AlertsLimit, Len(sorted)) |->
            LET a == alerts[sorted[k]]
            IN  [id |-> sorted[k], alert_type |-> a.alert_type, message |-> a.message,
                 timestamp |-> a.timestamp, level_cm |-> a.level_cm,
                 percent_full |-> a.percent_full, resolved |-> a.resolved]]

\* ------------------------------------------------------------- alert store
\* The row the INSERT of processAlert writes; resolved is not in the column
\* list and takes its default, 0.  The id of a row is its position.
AlertRow(data) ==
    [device_id |-> data.device_id, alert_type |-> data.alert_type,
     message |-> data.message, timestamp |-> DateOfTs(data.timestamp),
     level_cm |-> data.level_cm, percent_full |-> data.percent_full,
     resolved |-> FALSE]

\* ResolveMatches counting only the rows the UPDATE gives a new value.
ResolveMatchesUnresolved(deviceId, alertId) ==
    { i \in 1..Len(alerts) :
        i = alertId /\ alerts[i].device_id = deviceId /\ ~alerts[i].resolved }

\* ResolveMatches without the device_id condition.
ResolveMatchesAnyDevice(deviceId, alertId) ==
    { i \in 1..Len(alerts) : i = alertId }

\* The rows UPDATE alerts ... WHERE id = ? AND device_id = ? matches;
\* this.changes is their number, whatever resolved was before.
ResolveMatches(deviceId, alertId) ==
    { i \in 1..Len(alerts) : i = alertId /\ alerts[i].device_id = deviceId }

\* UpdateResolved writing the opposite of the flag.
UpdateResolvedToggle(store, ids) ==
    [i \in 1..Len(store) |->
        IF i \in ids THEN [store[i] EXCEPT !.resolved = ~store[i].resolved] ELSE store[i]]

\* SET resolved = 1 on the matched rows.
UpdateResolved(store, ids) ==
    [i \in 1..Len(store) |->
        IF i \in ids THEN [store[i] EXCEPT !.resolved = TRUE] ELSE store[i]]

\* ---------------------------------------------------------------- firmware
calculatePercentFull(level_cm) ==
    IF level_cm >= TANK_HEIGHT_CM THEN 0
    ELSE IF level_cm <= 0 THEN 100 * PctScale
    ELSE (100 * PctScale * (TANK_HEIGHT_CM - level_cm)) \div TANK_HEIGHT_CM

\* The three checks of processData, on the data they read.
FwLeakCheck(cur, prev) ==
    /\ ~cur.pump_state
    /\ ~prev.pump_state
    /\ (prev.level_cm - cur.level_cm) * 100 > LEAK_THRESHOLD_PERCENT * TANK_HEIGHT_CM

\* FwOverflowCheck without the pump gate.
FwOverflowCheckUngated(cur) ==
    cur.percent_full >= OVERFLOW_THRESHOLD_PERCENT * PctScale

\* FwOverflowCheck stopping only a pump that was already running at the
\* previous step.
FwOverflowCheckRunning(cur) ==
    /\ cur.percent_full >= OVERFLOW_THRESHOLD_PERCENT * PctScale
    /\ cur.pump_state
    /\ previousData.pump_state

FwOverflowCheck(cur) ==
    /\ cur.percent_full >= OVERFLOW_THRESHOLD_PERCENT * PctScale
    /\ cur.pump_state

FwPumpFaultCheck(cur) ==
    /\ cur.pump_state
    /\ cur.flow_l_min < NoFlowLimit

\* The last message of a history and the message published now.
LastTwo(out, message) ==
    IF out = << >> THEN <<message>> ELSE <<out[Len(out)], message>>

\* Globals are zero-initialised; setup() drives the relay LOW.
ZeroData == [level_cm |-> 0, percent_full |-> 0, flow_l_min |-> 0, pump_state |-> FALSE]

FwBoot ==
    /\ fwPc = "connect"
    /\ connected = FALSE
    /\ relay = FALSE
    /\ currentData = ZeroData
    /\ previousData = ZeroData
    /\ leakAlert = FALSE
    /\ overflowAlert = FALSE
    /\ pumpFaultAlert = FALSE
    /\ fwRead = ZeroData
    /\ fwSent = << >>
    /\ fwStops = 0
    /\ fwOut = << >>

\* loop(): if (!client.connected()) reconnectMQTT(); one attempt of the
\* while loop of reconnectMQTT either connects or fails and waits 5 seconds.
FwConnect ==
    /\ fwPc = "connect"
    /\ \/ connected /\ fwPc' = "mqtt" /\ UNCHANGED connected
       \/ ~connected /\ connected' = TRUE /\ fwPc' = "mqtt"
       \/ ~connected /\ UNCHANGED <<connected, fwPc>>
    /\ UNCHANGED <<relay, currentData, previousData, leakAlert, overflowAlert,
                   pumpFaultAlert, fwRead, fwSent, fwStops>>
    /\ UNCHANGED <<beVars, startVars, apiVars, cmdVars, fwOut>>

\* client.loop(): mqttCallback runs for a message on tank/control;
\* {"pump": b} calls setPumpState(b).
FwMqttLoop(cmd) ==
    /\ fwPc = "mqtt"
    /\ fwPc' = "read"
    /\ IF cmd = "none" \/ ~connected
       THEN UNCHANGED <<relay, currentData>>
       ELSE /\ relay' = (cmd = "pump_on")
            /\ currentData' = [currentData EXCEPT !.pump_state = (cmd = "pump_on")]
    /\ UNCHANGED <<connected, previousData, leakAlert, overflowAlert, pumpFaultAlert,
                   fwRead, fwSent, fwStops>>
    /\ UNCHANGED <<beVars, startVars, apiVars, cmdVars, fwOut>>

\* readSensors()
FwReadSensors(level, flow) ==
    /\ fwPc = "read"
    /\ fwPc' = "process"
    /\ currentData' = [level_cm |-> level, percent_full |-> calculatePercentFull(level),
                       flow_l_min |-> flow, pump_state |-> relay]
    /\ fwRead' = currentData'
    /\ fwSent' = << >>
    /\ fwStops' = 0
    /\ UNCHANGED <<connected, relay, previousData, leakAlert, overflowAlert, pumpFaultAlert>>
    /\ UNCHANGED <<beVars, startVars, apiVars, cmdVars, fwOut>>

\* processData(): the overflow check stops the pump through setPumpState(false)
\* before the pump-fault check reads currentData.pump_state.
FwProcessData ==
    /\ fwPc = "process"
    /\ fwPc' = "telemetry"
    /\ LET overflow == FwOverflowCheck(currentData)
           afterOverflow == IF overflow THEN [currentData EXCEPT !.pump_state = FALSE]
                            ELSE currentData
       IN  /\ leakAlert' = (leakAlert \/ FwLeakCheck(currentData, previousData))
           /\ overflowAlert' = (overflowAlert \/ overflow)
           /\ relay' = IF overflow THEN FALSE ELSE relay
           /\ fwStops' = IF overflow THEN fwStops + 1 ELSE fwStops
           /\ pumpFaultAlert' = (pumpFaultAlert \/ FwPumpFaultCheck(afterOverflow))
           /\ currentData' = afterOverflow
           /\ previousData' = afterOverflow
    /\ UNCHANGED <<connected, fwRead, fwSent>>
    /\ UNCHANGED <<beVars, startVars, apiVars, cmdVars, fwOut>>

\* sendTelemetry()
FwSendTelemetry ==
    /\ fwPc = "telemetry"
    /\ fwPc' = "alerts"
    /\ fwOut' = LastTwo(fwOut, [level_cm |-> currentData.level_cm,
                                percent_full |-> currentData.percent_full,
                                pump_state |-> currentData.pump_state])
    /\ UNCHANGED <<connected, relay, currentData, previousData, leakAlert, overflowAlert,
                   pumpFaultAlert, fwRead, fwSent, fwStops>>
    /\ UNCHANGED <<beVars, startVars, apiVars, cmdVars>>

\* handleAlerts(): one sendAlert per raised flag, in this order.
FwHandleAlerts ==
    /\ fwPc = "alerts"
    /\ fwPc' = "delay"
    /\ fwSent' = fwSent \o (IF leakAlert THEN <<"LEAK_DETECTED">> ELSE << >>)
                        \o (IF overflowAlert THEN <<"OVERFLOW">> ELSE << >>)
                        \o (IF pumpFaultAlert THEN <<"PUMP_FAULT">> ELSE << >>)
    /\ leakAlert' = FALSE
    /\ overflowAlert' = FALSE
    /\ pumpFaultAlert' = FALSE
    /\ UNCHANGED <<connected, relay, currentData, previousData, fwRead, fwStops>>
    /\ UNCHANGED <<beVars, startVars, apiVars, cmdVars, fwOut>>

\* delay(READING_INTERVAL_MS); the connection may be lost meanwhile.
FwDelay ==
    /\ fwPc = "delay"
    /\ fwPc' = "connect"
    /\ connected' \in {connected, FALSE}
    /\ UNCHANGED <<relay, currentData, previousData, leakAlert, overflowAlert,
                   pumpFaultAlert, fwRead, fwSent, fwStops>>
    /\ UNCHANGED <<beVars, startVars, apiVars, cmdVars, fwOut>>

\* ------------------------------------------------------ the command channel
\* The dashboard sends one of two actions (api.setPumpState).
CommandActions == {"PUMP_ON", "PUMP_OFF"}

\* DEVICE_ID of the firmware; it subscribes to its own command topic only.
FirmwareDevice == "tank01"

\* smart_tank_firmware.ino: the globals are zero, setup() has reached its
\* call of connectMQTT().
Fw2Boot ==
    /\ fw2Pc = "connect_setup"
    /\ mqttUp = FALSE
    /\ subscribed = FALSE
    /\ tankLevelCm = 0
    /\ tankPercent = 0
    /\ flowRateLMin = 0
    /\ fw2Waited = 0
    /\ fw2Failed = 0
    /\ fw2Out = << >>

\* No command has been issued; the firmware has booted with the pump off.
CommandBoot ==
    /\ nCommands = 0
    /\ published = << >>
    /\ commandBus = {}
    /\ received = << >>
    /\ pumpState = FALSE
    /\ relayPin = FALSE
    /\ Fw2Boot

\* POST /commands {action, device_id}: the command is written to the command
\* topic of the device with one publish; the handler keeps nothing to wait
\* for and answers at once.
PostCommand(action, deviceId) ==
    /\ alive
    /\ nCommands < MaxCommands
    /\ nCommands' = nCommands + 1
    /\ LET message == [request |-> nCommands + 1, to |-> deviceId,
                       action |-> action, device_id |-> deviceId]
       IN /\ published' = Append(published, message)
          /\ commandBus' = commandBus \cup {message}
    /\ UNCHANGED <<beVars, startVars, fwVars, apiVars, fw2Vars, received, pumpState, relayPin>>

\* A QoS 0 publication that reaches no subscriber: the device is offline, or
\* the topic is that of another device.
MqttLose(message) ==
    /\ message \in commandBus
    /\ commandBus' = commandBus \ {message}
    /\ UNCHANGED <<beVars, startVars, fwVars, apiVars, fw2Vars, nCommands, published, received,
                   pumpState, relayPin>>

\* mqttCallback that acts on PUMP_ON only.
mqttCallbackOnOnly(message) ==
    /\ message \in commandBus
    /\ message.to = FirmwareDevice
    /\ commandBus' = commandBus \ {message}
    /\ received' = Append(received, message)
    /\ IF message.action = "PUMP_ON"
       THEN pumpState' = TRUE /\ relayPin' = TRUE
       ELSE UNCHANGED <<pumpState, relayPin>>
    /\ UNCHANGED <<beVars, startVars, fwVars, apiVars, fw2Vars, nCommands, published>>

\* mqttCallback(topic, payload, length): the broker hands a message of the
\* command topic to the firmware once; the action of the parsed document
\* sets pumpState and the relay, any other action changes nothing.
mqttCallback(message) ==
    /\ message \in commandBus
    /\ message.to = FirmwareDevice
    /\ commandBus' = commandBus \ {message}
    /\ received' = Append(received, message)
    /\ IF message.action = "PUMP_ON"
       THEN pumpState' = TRUE /\ relayPin' = TRUE
       ELSE IF message.action = "PUMP_OFF"
            THEN pumpState' = FALSE /\ relayPin' = FALSE
            ELSE UNCHANGED <<pumpState, relayPin>>
    /\ UNCHANGED <<beVars, startVars, fwVars, apiVars, fw2Vars, nCommands, published>>

\* ------------------------------------------- firmware/smart_tank_firmware.ino
\* The positions at which connectMQTT runs, and where it returns to.
ConnectReturn ==
    [connect_setup |-> "top", connect_loop |-> "mqtt", connect_send |-> "publish"]

\* loop(): if (!mqttClient.connected()) connectMQTT();
Fw2LoopTop ==
    /\ fw2Pc = "top"
    /\ fw2Pc' = IF mqttUp THEN "mqtt" ELSE "connect_loop"
    /\ UNCHANGED <<mqttUp, subscribed, tankLevelCm, tankPercent, flowRateLMin,
                   fw2Waited, fw2Failed, fw2Out>>
    /\ UNCHANGED <<beVars, startVars, fwVars, apiVars, nCommands, published, commandBus,
                   received, pumpState, relayPin>>

\* connectMQTT that gives up after a refused attempt.
connectMQTTOnce(accepted) ==
    /\ fw2Pc \in DOMAIN ConnectReturn
    /\ IF mqttUp
       THEN /\ fw2Pc' = ConnectReturn[fw2Pc]
            /\ UNCHANGED <<mqttUp, subscribed, fw2Waited, fw2Failed>>
       ELSE IF accepted
            THEN /\ mqttUp' = TRUE
                 /\ subscribed' = TRUE
                 /\ UNCHANGED <<fw2Pc, fw2Waited, fw2Failed>>
            ELSE /\ fw2Failed < MaxRetries
                 /\ fw2Failed' = fw2Failed + 1
                 /\ fw2Waited' = fw2Waited + ReconnectDelayMs
                 /\ fw2Pc' = ConnectReturn[fw2Pc]
                 /\ UNCHANGED <<mqttUp, subscribed>>
    /\ UNCHANGED <<tankLevelCm, tankPercent, flowRateLMin, fw2Out>>
    /\ UNCHANGED <<beVars, startVars, fwVars, apiVars, nCommands, published, commandBus,
                   received, pumpState, relayPin>>

\* connectMQTT(): one evaluation of while (!mqttClient.connected()) and,
\* when the client is not connected, one pass of the body: an accepted
\* connect is followed by the subscribe, a refused one by delay(5000).
connectMQTT(accepted) ==
    /\ fw2Pc \in DOMAIN ConnectReturn
    /\ IF mqttUp
       THEN /\ fw2Pc' = ConnectReturn[fw2Pc]
            /\ UNCHANGED <<mqttUp, subscribed, fw2Waited, fw2Failed>>
       ELSE IF accepted
            THEN /\ mqttUp' = TRUE
                 /\ subscribed' = TRUE
                 /\ UNCHANGED <<fw2Pc, fw2Waited, fw2Failed>>
            ELSE /\ fw2Failed < MaxRetries
                 /\ fw2Failed' = fw2Failed + 1
                 /\ fw2Waited' = fw2Waited + ReconnectDelayMs
                 /\ UNCHANGED <<fw2Pc, mqttUp, subscribed>>
    /\ UNCHANGED <<tankLevelCm, tankPercent, flowRateLMin, fw2Out>>
    /\ UNCHANGED <<beVars, startVars, fwVars, apiVars, nCommands, published, commandBus,
                   received, pumpState, relayPin>>

\* The connection to the broker is lost; the session and the messages the
\* broker was about to deliver go with it.
MqttDrop ==
    /\ mqttUp
    /\ mqttUp' = FALSE
    /\ subscribed' = FALSE
    /\ commandBus' = {}
    /\ UNCHANGED <<fw2Pc, tankLevelCm, tankPercent, flowRateLMin, fw2Waited,
                   fw2Failed, fw2Out>>
    /\ UNCHANGED <<beVars, startVars, fwVars, apiVars, nCommands, published, received,
                   pumpState, relayPin>>

\* A client publishes a message on the command topic of the firmware; the
\* broker passes it on to a subscriber only.
BrokerPublish(action) ==
    /\ subscribed
    /\ nCommands < MaxCommands
    /\ nCommands' = nCommands + 1
    /\ commandBus' = commandBus \cup
            {[request |-> nCommands + 1, to |-> FirmwareDevice,
              action |-> action, device_id |-> FirmwareDevice]}
    /\ UNCHANGED <<beVars, startVars, fwVars, apiVars, fw2Vars, published, received,
                   pumpState, relayPin>>

\* mqttClient.loop() returns.
Fw2MqttLoop ==
    /\ fw2Pc = "mqtt"
    /\ fw2Pc' = "read"
    /\ UNCHANGED <<mqttUp, subscribed, tankLevelCm, tankPercent, flowRateLMin,
                   fw2Waited, fw2Failed, fw2Out>>
    /\ UNCHANGED <<beVars, startVars, fwVars, apiVars, nCommands, published, commandBus,
                   received, pumpState, relayPin>>

\* The distance readUltrasonicSensor works with.
ClampDistance(distance) ==
    IF distance > DISTANCE_FULL THEN DISTANCE_FULL
    ELSE IF distance < DISTANCE_EMPTY THEN DISTANCE_EMPTY
    ELSE distance

\* TankPercentOf without the two clamps.
TankPercentUnclamped(distance) ==
    ((DISTANCE_FULL - distance) * 100 * Pct2Scale) \div (DISTANCE_FULL - DISTANCE_EMPTY)

\* ((DISTANCE_FULL - distance) / (DISTANCE_FULL - DISTANCE_EMPTY)) * 100.0 of
\* the clamped distance, then constrain(tankPercent, 0.0, 100.0).
TankPercentOf(distance) ==
    LET percent == ((DISTANCE_FULL - ClampDistance(distance)) * 100 * Pct2Scale)
                       \div (DISTANCE_FULL - DISTANCE_EMPTY)
    IN  Max(0, Min(100 * Pct2Scale, percent))

\* PumpAfterRead without the band in which the pump keeps its state.
PumpAfterReadNoBand(percent, pump) ==
    percent < PumpOnBelow * Pct2Scale

\* The pump control at the end of readUltrasonicSensor.
PumpAfterRead(percent, pump) ==
    IF percent < PumpOnBelow * Pct2Scale THEN TRUE
    ELSE IF percent > PumpOffAbove * Pct2Scale THEN FALSE
    ELSE pump

\* loop(): 5 seconds have passed since the last sensor read;
\* readUltrasonicSensor().  flowRateLMin is held as the rise of the water it
\* is proportional to, the time between two reads is not modelled.
readUltrasonicSensor(distance) ==
    /\ fw2Pc = "read"
    /\ fw2Pc' = "send"
    /\ tankPercent' = TankPercentOf(distance)
    /\ tankLevelCm' = ClampDistance(distance)
    /\ flowRateLMin' = Max(0, tankLevelCm - ClampDistance(distance))
    /\ pumpState' = PumpAfterRead(TankPercentOf(distance), pumpState)
    /\ relayPin' = PumpAfterRead(TankPercentOf(distance), relayPin)
    /\ UNCHANGED <<mqttUp, subscribed, fw2Waited, fw2Failed, fw2Out>>
    /\ UNCHANGED <<beVars, startVars, fwVars, apiVars, nCommands, published, commandBus, received>>

\* loop(): the sensor read is not due.
Fw2SkipRead ==
    /\ fw2Pc = "read"
    /\ fw2Pc' = "send"
    /\ UNCHANGED <<mqttUp, subscribed, tankLevelCm, tankPercent, flowRateLMin,
                   fw2Waited, fw2Failed, fw2Out>>
    /\ UNCHANGED <<beVars, startVars, fwVars, apiVars, nCommands, published, commandBus,
                   received, pumpState, relayPin>>

\* loop(): a second has passed since the last telemetry; sendTelemetry()
\* starts with if (!mqttClient.connected()) connectMQTT().
Fw2SendTelemetry ==
    /\ fw2Pc = "send"
    /\ fw2Pc' = IF mqttUp THEN "publish" ELSE "connect_send"
    /\ UNCHANGED <<mqttUp, subscribed, tankLevelCm, tankPercent, flowRateLMin,
                   fw2Waited, fw2Failed, fw2Out>>
    /\ UNCHANGED <<beVars, startVars, fwVars, apiVars, nCommands, published, commandBus,
                   received, pumpState, relayPin>>

\* sendTelemetry(): the document is built from the globals and published; a
\* publish on a lost connection fails and is logged.
Fw2Publish ==
    /\ fw2Pc = "publish"
    /\ fw2Pc' = "top"
    /\ fw2Out' = IF mqttUp
                 THEN LastTwo(fw2Out, [level_cm |-> tankLevelCm,
                                       percent_full |-> tankPercent])
                 ELSE fw2Out
    /\ UNCHANGED <<mqttUp, subscribed, tankLevelCm, tankPercent, flowRateLMin,
                   fw2Waited, fw2Failed>>
    /\ UNCHANGED <<beVars, startVars, fwVars, apiVars, nCommands, published, commandBus,
                   received, pumpState, relayPin>>

\* loop(): the telemetry is not due.
Fw2SkipTelemetry ==
    /\ fw2Pc = "send"
    /\ fw2Pc' = "top"
    /\ UNCHANGED <<mqttUp, subscribed, tankLevelCm, tankPercent, flowRateLMin,
                   fw2Waited, fw2Failed, fw2Out>>
    /\ UNCHANGED <<beVars, startVars, fwVars, apiVars, nCommands, published, commandBus,
                   received, pumpState, relayPin>>

\* -------------------------------------------------------------------- Init
\* The process has started and has handled no message.
ProcessUp ==
    /\ alive = TRUE
    /\ dropped = 0
    /\ predLast = [op |-> "none"]
    /\ faults = {}

\* ProcessUp, and the startup load of the statuses is over.
ServerUp ==
    /\ ProcessUp
    /\ pendingDevices = FALSE
    /\ pendingLoad = {}

\* The server after start on an empty database.
Init ==
    /\ now = NowStart
    /\ telemetry = EmptyBag
    /\ alerts = << >>
    /\ deviceStatus = [d \in Devices |-> Null]
    /\ pendingInsert = EmptyBag
    /\ pendingAnalysis = {}
    /\ pendingLeak = {}
    /\ nIngest = 0
    /\ statusIng = [d \in Devices |-> 0]
    /\ derivedIng = [d \in Devices |-> 0]
    /\ last = [op |-> "init"]
    /\ FwBoot
    /\ ServerUp
    /\ CommandBoot

RECURSIVE BagsOfSize(_, _)
BagsOfSize(S, n) ==
    IF n = 0 THEN {EmptyBag}
    ELSE { B (+) SetToBag({x}) : B \in BagsOfSize(S, n - 1), x \in S }

\* The server in the middle of a run: a device has a stored history, the
\* message ingested last (data) is in the cache and its analysis is queued.
InitStored ==
    \E data \in HistoryPayloads, n \in 0..(MaxStored - 1) :
      \E B \in BagsOfSize({TelemetryRow(m) : m \in {h \in HistoryPayloads :
                                                    h.device_id = data.device_id}}, n) :
        /\ now = NowStart
        /\ telemetry = B (+) SetToBag({TelemetryRow(data)})
        /\ alerts = << >>
        /\ deviceStatus = [d \in Devices |->
                              IF d = data.device_id THEN StatusOf(data) ELSE Null]
        /\ pendingInsert = EmptyBag
        /\ pendingAnalysis = {[deviceId |-> data.device_id, ing |-> n + 1, data |-> data]}
        /\ pendingLeak = {}
        /\ nIngest = n + 1
        /\ statusIng = [d \in Devices |-> IF d = data.device_id THEN n + 1 ELSE 0]
        /\ derivedIng = [d \in Devices |-> 0]
        /\ last = [op |-> "init"]
        /\ FwBoot
        /\ ServerUp
        /\ CommandBoot

\* ----------------------------------------------------------------- actions
\* onMessage('tank/telemetry', ...) -> processTelemetry(data): the INSERT is
\* queued, the cache entry is replaced, the analysis SELECT is queued.  The
\* statements are issued outside db.serialize, so the database completes the
\* queued statements in any order.
ProcessTelemetry(data) ==
    /\ nIngest < MaxIngest
    /\ nIngest' = nIngest + 1
    /\ pendingInsert' = pendingInsert (+) SetToBag({TelemetryRow(data)})
    /\ deviceStatus' = [deviceStatus EXCEPT ![data.device_id] = StatusOf(data)]
    /\ pendingAnalysis' = pendingAnalysis \cup
            {[deviceId |-> data.device_id, ing |-> nIngest + 1, data |-> data]}
    /\ statusIng' = [statusIng EXCEPT ![data.device_id] = nIngest + 1]
    /\ derivedIng' = [derivedIng EXCEPT ![data.device_id] = 0]
    /\ last' = [op |-> "processTelemetry", data |-> data,
                seen |-> deviceStatus[data.device_id] # Null]
    /\ UNCHANGED <<now, telemetry, alerts, pendingLeak>>
    /\ UNCHANGED <<startVars, fwVars, cmdVars, apiVars>>

\* The database executes a queued INSERT INTO telemetry.
DbInsert(row) ==
    /\ BagIn(row, pendingInsert)
    /\ pendingInsert' = pendingInsert (-) SetToBag({row})
    /\ telemetry' = telemetry (+) SetToBag({row})
    /\ UNCHANGED <<now, alerts, deviceStatus, pendingAnalysis, pendingLeak,
                   nIngest, statusIng, derivedIng, last>>
    /\ UNCHANGED <<startVars, fwVars, cmdVars, apiVars>>

\* The SELECT of runAnalysis executes and its callback runs.
AnalysisCallback(p, rows) ==
    /\ p \in pendingAnalysis
    /\ rows \in SelectLastWeek(p.deviceId)
    /\ pendingAnalysis' = pendingAnalysis \ {p}
    /\ IF Len(rows) < MinAnalysisRows
       THEN /\ UNCHANGED <<deviceStatus, pendingLeak, derivedIng>>
            /\ last' = [op |-> "runAnalysis", ing |-> p.ing, data |-> p.data,
                        rows |-> rows, at |-> now, ran |-> FALSE]
       ELSE LET consumption == calculateConsumption(rows)
                daysUntilEmpty == predictDaysUntilEmpty(consumption, deviceStatus[p.deviceId])
            IN  /\ deviceStatus' =
                      IF deviceStatus[p.deviceId] # Null
                      THEN [deviceStatus EXCEPT
                              ![p.deviceId].days_until_empty = daysUntilEmpty,
                              ![p.deviceId].consumption_today = consumption.today,
                              ![p.deviceId].consumption_week = consumption.week]
                      ELSE deviceStatus
                /\ derivedIng' = IF deviceStatus[p.deviceId] # Null
                                 THEN [derivedIng EXCEPT ![p.deviceId] = p.ing]
                                 ELSE derivedIng
                /\ pendingLeak' = pendingLeak \cup
                        {[deviceId |-> p.deviceId, rows |-> rows, ing |-> p.ing, data |-> p.data]}
                /\ last' = [op |-> "runAnalysis", ing |-> p.ing, data |-> p.data,
                            rows |-> rows, at |-> now, ran |-> TRUE]
    /\ UNCHANGED <<now, telemetry, alerts, pendingInsert, nIngest, statusIng>>
    /\ UNCHANGED <<startVars, fwVars, cmdVars, apiVars>>

\* The SELECT on devices of checkLeakDetection executes and its callback
\* runs; the INSERT INTO alerts it issues is taken as done with it.
LeakCallback(q) ==
    /\ q \in pendingLeak
    /\ pendingLeak' = pendingLeak \ {q}
    /\ alerts' = IF q.deviceId \in DOMAIN DeviceTable
                 THEN alerts \o LeakAlerts(q.deviceId, q.rows, DeviceTable[q.deviceId])
                 ELSE alerts
    /\ last' = [op |-> "checkLeakDetection", ing |-> q.ing, data |-> q.data,
                rows |-> q.rows, alertsBefore |-> Len(alerts)]
    /\ UNCHANGED <<now, telemetry, deviceStatus, pendingInsert, pendingAnalysis,
                   nIngest, statusIng, derivedIng>>
    /\ UNCHANGED <<startVars, fwVars, cmdVars, apiVars>>

\* The wall clock passes midnight.
Tick ==
    /\ now < NowStart + MaxTicks * DayMs
    /\ now' = now + DayMs
    /\ UNCHANGED <<telemetry, alerts, deviceStatus, pendingInsert, pendingAnalysis,
                   pendingLeak, nIngest, statusIng, derivedIng, last>>
    /\ UNCHANGED <<startVars, fwVars, cmdVars, apiVars>>

\* onMessage('tank/alerts', ...) -> processAlert(data): the alert is stored as
\* the device sent it; sendNotification changes no state of the server.
ProcessAlert(data) ==
    /\ Len(alerts) < MaxAlerts
    /\ alerts' = Append(alerts, AlertRow(data))
    /\ last' = [op |-> "processAlert", data |-> data, alertsBefore |-> Len(alerts)]
    /\ UNCHANGED <<now, telemetry, deviceStatus, pendingInsert, pendingAnalysis,
                   pendingLeak, nIngest, statusIng, derivedIng>>
    /\ UNCHANGED <<startVars, fwVars, cmdVars, apiVars>>

\* POST /devices/:deviceId/alerts/:alertId/resolve: 404 when the UPDATE
\* changed no row, 200 otherwise.
Resolve(deviceId, alertId) ==
    LET ids == ResolveMatches(deviceId, alertId)
    IN  /\ alerts' = UpdateResolved(alerts, ids)
        /\ last' = [op |-> "resolve", deviceId |-> deviceId, alertId |-> alertId,
                    status |-> IF Cardinality(ids) = 0 THEN 404 ELSE 200,
                    before |-> alerts]
        /\ UNCHANGED <<now, telemetry, deviceStatus, pendingInsert, pendingAnalysis,
                       pendingLeak, nIngest, statusIng, derivedIng>>
        /\ UNCHANGED <<startVars, fwVars, cmdVars, apiVars>>

\* GET /devices/:deviceId/status: 404 when the cache has no entry.
GetStatus(deviceId) ==
    /\ last' = IF deviceStatus[deviceId] = Null
               THEN [op |-> "status", deviceId |-> deviceId, status |-> 404,
                     body |-> [detail |-> "Device not found"]]
               ELSE [op |-> "status", deviceId |-> deviceId, status |-> 200,
                     body |-> StatusBody(deviceId)]
    /\ UNCHANGED <<now, telemetry, alerts, deviceStatus, pendingInsert,
                   pendingAnalysis, pendingLeak, nIngest, statusIng, derivedIng>>
    /\ UNCHANGED <<startVars, fwVars, cmdVars, apiVars>>

\* GET /devices/:deviceId/telemetry
GetTelemetry(deviceId) ==
    /\ last' = [op |-> "telemetry", deviceId |-> deviceId, status |-> 200,
                body |-> TelemetryBody(deviceId)]
    /\ UNCHANGED <<now, telemetry, alerts, deviceStatus, pendingInsert,
                   pendingAnalysis, pendingLeak, nIngest, statusIng, derivedIng>>
    /\ UNCHANGED <<startVars, fwVars, cmdVars, apiVars>>

\* GET /devices/:deviceId/alerts?resolved=...
GetAlerts(deviceId, resolved) ==
    /\ last' = [op |-> "alerts", deviceId |-> deviceId, status |-> 200,
                body |-> AlertsBody(deviceId, resolved)]
    /\ UNCHANGED <<now, telemetry, alerts, deviceStatus, pendingInsert,
                   pendingAnalysis, pendingLeak, nIngest, statusIng, derivedIng>>
    /\ UNCHANGED <<startVars, fwVars, cmdVars, apiVars>>

\* GET /devices/:deviceId/predictions?days_ahead=query
GetPredictions(deviceId, query) ==
    LET daysAhead == DaysAheadOf(query)
        rows == SelectLastMonth(deviceId)
        body == PredictionsBody(rows, daysAhead)
    IN  /\ last' = [op |-> "predictions", deviceId |-> deviceId, query |-> query,
                    at |-> now, rows |-> rows, status |-> 200, body |-> body,
                    prev |-> predLast,
                    before |-> [telemetry |-> telemetry, alerts |-> alerts,
                                deviceStatus |-> deviceStatus]]
        /\ predLast' = [op |-> "predictions", deviceId |-> deviceId, query |-> query,
                        at |-> now, store |-> telemetry, body |-> body]
        /\ UNCHANGED <<now, telemetry, alerts, deviceStatus, pendingInsert,
                       pendingAnalysis, pendingLeak, nIngest, statusIng, derivedIng>>
        /\ UNCHANGED <<startVars, fwVars, cmdVars, alive, dropped, faults>>

\* OnMessageMalformed without the try block: the exception leaves onMessage
\* and reaches the MQTT client that emitted 'message'.
OnMessageMalformedUncaught(topic) ==
    /\ dropped < MaxMalformed
    /\ dropped' = dropped + 1
    /\ alive' = FALSE
    /\ last' = [op |-> "onMessage", topic |-> topic, raised |-> TRUE,
                before |-> [series |-> telemetry (+) pendingInsert, alerts |-> alerts,
                            deviceStatus |-> deviceStatus]]
    /\ UNCHANGED <<now, telemetry, alerts, deviceStatus, pendingInsert, pendingAnalysis,
                   pendingLeak, nIngest, statusIng, derivedIng>>
    /\ UNCHANGED <<startVars, fwVars, cmdVars, predLast, faults>>

\* onMessage(topic, message) with a message JSON.parse throws on: the catch
\* block logs the exception and onMessage returns.
OnMessageMalformed(topic) ==
    /\ dropped < MaxMalformed
    /\ dropped' = dropped + 1
    /\ last' = [op |-> "onMessage", topic |-> topic, raised |-> FALSE,
                before |-> [series |-> telemetry (+) pendingInsert, alerts |-> alerts,
                            deviceStatus |-> deviceStatus]]
    /\ UNCHANGED <<now, telemetry, alerts, deviceStatus, pendingInsert, pendingAnalysis,
                   pendingLeak, nIngest, statusIng, derivedIng>>
    /\ UNCHANGED <<startVars, fwVars, cmdVars, alive, predLast, faults>>

\* The callback of runAnalysis called with err: if (err || ...) return.
AnalysisCallbackError(p) ==
    /\ p \in pendingAnalysis
    /\ pendingAnalysis' = pendingAnalysis \ {p}
    /\ faults' = faults \cup {"analysis_query"}
    /\ last' = [op |-> "runAnalysis", ing |-> p.ing, data |-> p.data,
                rows |-> << >>, at |-> now, ran |-> FALSE]
    /\ UNCHANGED <<now, telemetry, alerts, deviceStatus, pendingInsert, pendingLeak,
                   nIngest, statusIng, derivedIng>>
    /\ UNCHANGED <<startVars, fwVars, cmdVars, alive, dropped, predLast>>

\* The callback of checkLeakDetection when the database and the notifier can
\* fail.  No row in devices: return.  The INSERT INTO alerts is run without a
\* callback and without an 'error' listener on the statement: when it fails,
\* the statement emits 'error', which nothing handles, and the process ends
\* on the uncaught exception.  A rejected axios.post is caught and logged.
LeakPass(q, outcome) ==
    LET device == q.deviceId \in DOMAIN DeviceTable
        found == IF device THEN LeakAlerts(q.deviceId, q.rows, DeviceTable[q.deviceId])
                 ELSE << >>
    IN  /\ q \in pendingLeak
        /\ outcome # "ok" => Len(found) > 0
        /\ pendingLeak' = pendingLeak \ {q}
        /\ alerts' = IF outcome = "alert_insert_fails" THEN alerts ELSE alerts \o found
        /\ alive' = (outcome # "alert_insert_fails")
        /\ faults' = faults \cup (IF device THEN {} ELSE {"no_device_config"})
                            \cup (IF outcome = "ok" THEN {} ELSE {outcome})
        /\ last' = [op |-> "checkLeakDetection", ing |-> q.ing, data |-> q.data,
                    rows |-> q.rows, alertsBefore |-> Len(alerts)]
        /\ UNCHANGED <<now, telemetry, deviceStatus, pendingInsert, pendingAnalysis,
                       nIngest, statusIng, derivedIng>>
        /\ UNCHANGED <<startVars, fwVars, cmdVars, dropped, predLast>>

Analyse ==
    \E p \in pendingAnalysis : \E rows \in SelectLastWeek(p.deviceId) : AnalysisCallback(p, rows)

Detect == \E q \in pendingLeak : LeakCallback(q)

Next ==
    \/ \E data \in Payloads : ProcessTelemetry(data)
    \/ \E row \in DOMAIN pendingInsert : DbInsert(row)
    \/ Analyse
    \/ Detect

Spec == Init /\ [][Next]_vars

\* The analysis and detection of one ingestion over a stored history.
NextStored ==
    \/ Analyse
    \/ Detect
    \/ Tick

SpecStored == InitStored /\ [][NextStored]_vars

\* The alert store: tank01 has two stored records, the analysis of the newer
\* one is queued; alert messages arrive and an operator resolves alerts.
InitAlerts ==
    \E lvl \in LevelValues :
        LET older == Payload("tank01", 9 * DaySecs + 43200, 1500, "OFF")
            newer == Payload("tank01", 10 * DaySecs + 3600, lvl, "OFF")
        IN  /\ now = NowStart
            /\ telemetry = SetToBag({TelemetryRow(older), TelemetryRow(newer)})
            /\ alerts = << >>
            /\ deviceStatus = [d \in Devices |->
                                  IF d = "tank01" THEN StatusOf(newer) ELSE Null]
            /\ pendingInsert = EmptyBag
            /\ pendingAnalysis = {[deviceId |-> "tank01", ing |-> 2, data |-> newer]}
            /\ pendingLeak = {}
            /\ nIngest = 2
            /\ statusIng = [d \in Devices |-> IF d = "tank01" THEN 2 ELSE 0]
            /\ derivedIng = [d \in Devices |-> 0]
            /\ last = [op |-> "init"]
            /\ FwBoot
            /\ ServerUp
            /\ CommandBoot

NextAlerts ==
    \/ Analyse
    \/ Detect
    \/ \E data \in AlertPayloads : ProcessAlert(data)
    \/ \E d \in Devices, id \in AlertIds : Resolve(d, id)

SpecAlerts == InitAlerts /\ [][NextAlerts]_vars

\* Forecasts: tank01 has a stored history, the message ingested last is in
\* the cache and its analysis is queued; tank02 has sent nothing.
InitPredict ==
    \E data \in ForecastPayloads, n \in 0..(MaxHistory - 1) :
      \E B \in BagsOfSize({TelemetryRow(m) : m \in ForecastPayloads}, n) :
        /\ \A r \in DOMAIN B : r.timestamp <= DateOfTs(data.ts)
        /\ now = NowStart
        /\ telemetry = B (+) SetToBag({TelemetryRow(data)})
        /\ alerts = << >>
        /\ deviceStatus = [d \in Devices |->
                              IF d = data.device_id THEN StatusOf(data) ELSE Null]
        /\ pendingInsert = EmptyBag
        /\ pendingAnalysis = {[deviceId |-> data.device_id, ing |-> n + 1, data |-> data]}
        /\ pendingLeak = {}
        /\ nIngest = n + 1
        /\ statusIng = [d \in Devices |-> IF d = data.device_id THEN n + 1 ELSE 0]
        /\ derivedIng = [d \in Devices |-> 0]
        /\ last = [op |-> "init"]
        /\ FwBoot
        /\ ServerUp
        /\ CommandBoot

NextPredict ==
    \/ \E req \in PredictRequests : GetPredictions(req[1], req[2])
    \/ Analyse

SpecPredict == InitPredict /\ [][NextPredict]_vars

\* The pipeline when messages can be unparseable and steps of the handling
\* can fail; a process that has ended handles nothing.
NextFaulty ==
    \/ \E data \in FaultPayloads : alive /\ ProcessTelemetry(data)
    \/ \E row \in DOMAIN pendingInsert : alive /\ DbInsert(row)
    \/ \E topic \in Topics : alive /\ OnMessageMalformed(topic)
    \/ alive /\ Analyse
    \/ \E p \in pendingAnalysis : alive /\ AnalysisCallbackError(p)
    \/ \E q \in pendingLeak, outcome \in PassOutcomes : alive /\ LeakPass(q, outcome)

SpecFaulty == Init /\ [][NextFaulty]_vars

\* The dashboard polls the read endpoints of both devices while telemetry
\* and alerts of tank01 arrive; tank02 has sent nothing.
NextReads ==
    \/ \E data \in FaultPayloads : data.device_id = "tank01" /\ ProcessTelemetry(data)
    \/ \E row \in DOMAIN pendingInsert : DbInsert(row)
    \/ \E data \in AlertPayloads : data.device_id = "tank01" /\ ProcessAlert(data)
    \/ \E d \in Devices : GetStatus(d)
    \/ \E d \in Devices : GetTelemetry(d)
    \/ \E d \in Devices, resolved \in {"", "true", "false"} : GetAlerts(d, resolved)
    \/ \E d \in Devices : GetPredictions(d, "2")

SpecReads == Init /\ [][NextReads]_vars

\* A leak over time: the server has started on a database that holds one
\* record of tank01 and has loaded it into the cache; the tank is then
\* reported empty, an operator resolves alerts, days pass.
InitLeak ==
    \E older \in LeakOlderPayloads :
        /\ now = NowStart
        /\ telemetry = SetToBag({TelemetryRow(older)})
        /\ alerts = << >>
        /\ deviceStatus = [d \in Devices |->
                              IF d = "tank01" THEN StatusOfRow(TelemetryRow(older)) ELSE Null]
        /\ pendingInsert = EmptyBag
        /\ pendingAnalysis = {}
        /\ pendingLeak = {}
        /\ nIngest = 0
        /\ statusIng = [d \in Devices |-> 0]
        /\ derivedIng = [d \in Devices |-> 0]
        /\ last = [op |-> "init"]
        /\ FwBoot
        /\ ServerUp
        /\ CommandBoot

NextLeak ==
    \/ \E data \in LeakRunPayloads : ProcessTelemetry(data)
    \/ \E row \in DOMAIN pendingInsert : DbInsert(row)
    \/ Analyse
    \/ Detect
    \/ \E id \in DOMAIN alerts : Resolve("tank01", id)
    \/ Tick

SpecLeak == InitLeak /\ [][NextLeak]_vars

\* ------------------------------------------------------------ startup load
\* SELECT * FROM telemetry WHERE device_id = ? ORDER BY timestamp DESC LIMIT 1:
\* the rows it can return, none on an empty history.
NewestRows(deviceId) ==
    LET rows == { r \in DOMAIN telemetry : r.device_id = deviceId }
    IN  { r \in rows : \A o \in rows : o.timestamp <= r.timestamp }

\* The callback of SELECT * FROM devices issues one newest-row SELECT per
\* registered device.
StartupDevices ==
    /\ pendingDevices
    /\ pendingDevices' = FALSE
    /\ pendingLoad' = DOMAIN DeviceTable
    /\ UNCHANGED <<beVars, fwVars, apiVars, cmdVars>>

\* The newest-row SELECT of a device executes and its callback runs: a row
\* found is stored as the status of the device.
StartupLoad(deviceId) ==
    /\ deviceId \in pendingLoad
    /\ pendingLoad' = pendingLoad \ {deviceId}
    /\ IF NewestRows(deviceId) = {}
       THEN UNCHANGED <<deviceStatus, statusIng, derivedIng, last>>
       ELSE \E row \in NewestRows(deviceId) :
               /\ deviceStatus' = [deviceStatus EXCEPT ![deviceId] = StatusOfRow(row)]
               /\ statusIng' = [statusIng EXCEPT ![deviceId] = 0]
               /\ derivedIng' = [derivedIng EXCEPT ![deviceId] = 0]
               /\ last' = [op |-> "startupLoad", deviceId |-> deviceId, row |-> row]
    /\ UNCHANGED <<now, telemetry, alerts, pendingInsert, pendingAnalysis, pendingLeak,
                   nIngest, pendingDevices>>
    /\ UNCHANGED <<fwVars, apiVars, cmdVars>>

\* The script of server.js has run to its end on a database that holds up to
\* one record of tank01: the SELECT on devices is queued, the MQTT client is
\* connecting, the cache is empty.
InitStartup ==
    \E B \in {EmptyBag} \cup { SetToBag({TelemetryRow(m)}) : m \in LeakOlderPayloads } :
        /\ now = NowStart
        /\ telemetry = B
        /\ alerts = << >>
        /\ deviceStatus = [d \in Devices |-> Null]
        /\ pendingInsert = EmptyBag
        /\ pendingAnalysis = {}
        /\ pendingLeak = {}
        /\ nIngest = 0
        /\ statusIng = [d \in Devices |-> 0]
        /\ derivedIng = [d \in Devices |-> 0]
        /\ last = [op |-> "init"]
        /\ FwBoot
        /\ ProcessUp
        /\ pendingDevices = TRUE
        /\ pendingLoad = {}
        /\ CommandBoot

NextStartup ==
    \/ StartupDevices
    \/ \E d \in Devices : StartupLoad(d)
    \/ \E data \in LeakRunPayloads : ProcessTelemetry(data)
    \/ \E row \in DOMAIN pendingInsert : DbInsert(row)
    \/ Analyse
    \/ Detect

SpecStartup == InitStartup /\ [][NextStartup]_vars

\* Commands issued through the facade and their delivery to the firmware.
NextCommand ==
    \/ \E action \in CommandActions, d \in Devices : PostCommand(action, d)
    \/ \E message \in commandBus : MqttLose(message)
    \/ \E message \in commandBus : mqttCallback(message)

SpecCommand == Init /\ [][NextCommand]_vars

\* smart_tank_firmware.ino alone, no client publishing commands: the sensor
\* and the broker are its environment.
Fw2Next ==
    \/ Fw2LoopTop
    \/ \E accepted \in BOOLEAN : connectMQTT(accepted)
    \/ MqttDrop
    \/ Fw2MqttLoop
    \/ \E distance \in Fw2Distances : readUltrasonicSensor(distance)
    \/ Fw2SkipRead
    \/ Fw2SendTelemetry
    \/ Fw2Publish
    \/ Fw2SkipTelemetry

Fw2Spec == Init /\ [][Fw2Next]_vars

\* The firmware alone, the sensors and the control topic as its environment.
FwNext ==
    \/ FwConnect
    \/ \E cmd \in FwCommands : FwMqttLoop(cmd)
    \/ \E level \in FwLevelValues, flow \in FwFlowValues : FwReadSensors(level, flow)
    \/ FwProcessData
    \/ FwSendTelemetry
    \/ FwHandleAlerts
    \/ FwDelay

FwSpec == Init /\ [][FwNext]_vars

\* The steps of loop() that do not wait for the broker: the microcontroller
\* keeps taking them; whether the broker accepts a connection is left open.
FwLoopStep ==
    \/ connected /\ FwConnect
    \/ \E cmd \in FwCommands : FwMqttLoop(cmd)
    \/ \E level \in FwLevelValues, flow \in FwFlowValues : FwReadSensors(level, flow)
    \/ FwProcessData
    \/ FwSendTelemetry
    \/ FwHandleAlerts
    \/ FwDelay

FwRunning == FwSpec /\ WF_vars(FwLoopStep)

\* FwRunning with a broker that accepts a connection in the end.
FwRunningOnline == FwRunning /\ WF_vars(FwConnect)

\* smart_tank_firmware.ino connected to a broker that accepts it, with clients
\* publishing on its command topic: mqttCallback runs inside
\* mqttClient.loop().
PumpNext ==
    \/ Fw2LoopTop
    \/ connectMQTT(TRUE)
    \/ \E action \in BusActions : BrokerPublish(action)
    \/ \E message \in commandBus : fw2Pc = "mqtt" /\ mqttCallback(message)
    \/ Fw2MqttLoop
    \/ \E distance \in PumpDistances : readUltrasonicSensor(distance)
    \/ Fw2SkipRead
    \/ Fw2SendTelemetry
    \/ Fw2Publish
    \/ Fw2SkipTelemetry

PumpSpec == Init /\ [][PumpNext]_vars

\* The device runs one of the two sketches: the steps of a sketch are taken
\* while the other one has not left its boot state.
SketchNext ==
    \/ Fw2Boot /\ FwConnect
    \/ \E cmd \in FwCommands : Fw2Boot /\ FwMqttLoop(cmd)
    \/ \E level \in FwLevelValues, flow \in FwFlowValues : Fw2Boot /\ FwReadSensors(level, flow)
    \/ Fw2Boot /\ FwProcessData
    \/ Fw2Boot /\ FwSendTelemetry
    \/ Fw2Boot /\ FwHandleAlerts
    \/ Fw2Boot /\ FwDelay
    \/ FwBoot /\ Fw2LoopTop
    \/ \E accepted \in BOOLEAN : FwBoot /\ connectMQTT(accepted)
    \/ FwBoot /\ MqttDrop
    \/ FwBoot /\ Fw2MqttLoop
    \/ \E distance \in Fw2Distances : FwBoot /\ readUltrasonicSensor(distance)
    \/ FwBoot /\ Fw2SkipRead
    \/ FwBoot /\ Fw2SendTelemetry
    \/ FwBoot /\ Fw2Publish
    \/ FwBoot /\ Fw2SkipTelemetry

SketchSpec == Init /\ [][SketchNext]_vars

\* The sketch that runs keeps running, the broker accepts a connection in
\* the end, and a connection lasts until the loop of connectMQTT has tested
\* it once more.
SketchLive ==
    /\ SketchSpec
    /\ WF_vars(Fw2Boot /\ FwConnect)
    /\ WF_vars(FwBoot /\ ~mqttUp /\ connectMQTT(TRUE))
    /\ SF_vars(FwBoot /\ mqttUp /\ connectMQTT(TRUE))

\* ================================================================== claims
\* What the claims say, written from their wording.
ClaimLeakPair(newer, older, device) ==
    /\ newer.pump_state = "OFF"
    /\ older.pump_state = "OFF"
    /\ (older.level_cm - newer.level_cm) * 100
          > device.leak_threshold_percent * device.tank_height_cm

QualifyingPairs(rows, device) ==
    { i \in 1..(Len(rows) - 1) : ClaimLeakPair(rows[i], rows[i + 1], device) }

ScannedRows(rows) == SubSeq(rows, 1, Min(RecentWindow, Len(rows)))

\* The alerts the handler that ran last has inserted.
NewAlerts == SubSeq(alerts, last.alertsBefore + 1, Len(alerts))

Configured(d) == d \in DOMAIN DeviceTable

\* C1: a detection pass of a configured device inserts exactly one
\* LEAK_DETECTED alert when some adjacent pair of the scanned records is
\* pump-off on both sides with a drop above leak_threshold_percent, however
\* many pairs qualify, and no alert when no pair qualifies.
C1_OneLeakAlertPerPass ==
    (last.op = "checkLeakDetection" /\ Configured(last.data.device_id)) =>
        LET device == DeviceTable[last.data.device_id]
            q == QualifyingPairs(ScannedRows(last.rows), device)
        IN  /\ q # {} => /\ Len(NewAlerts) = 1
                          /\ NewAlerts[1].alert_type = "LEAK_DETECTED"
                          /\ NewAlerts[1].device_id = last.data.device_id
                          /\ ~NewAlerts[1].resolved
            /\ q = {} => Len(NewAlerts) = 0

C1_Witness ==
    /\ last.op = "checkLeakDetection"
    /\ Configured(last.data.device_id)
    /\ Cardinality(QualifyingPairs(ScannedRows(last.rows),
                                   DeviceTable[last.data.device_id])) >= 2
    /\ Len(NewAlerts) = 1

\* The series of a device as it is once every queued INSERT has run.
SeriesOf(d) ==
    LET all == telemetry (+) pendingInsert
    IN  [r \in { x \in DOMAIN all : x.device_id = d } |-> all[r]]

\* The handling of the ingestion named in last has ended: its analysis
\* stopped early, or its detection pass has run.
HandlingEnded ==
    \/ last.op = "checkLeakDetection"
    \/ last.op = "runAnalysis" /\ ~last.ran

\* C2: when the handling of the ingestion of r has ended, and r is the newest
\* record of its device, inside the 7-day window, and forms with the record
\* immediately before it a pump-off pair whose drop exceeds the threshold,
\* that handling has raised LEAK_DETECTED.
C2_LeakRaisedByIngestionOfR ==
    (HandlingEnded /\ Configured(last.data.device_id)) =>
        LET r == TelemetryRow(last.data)
            S == SeriesOf(r.device_id)
            others == BagToSet(S) \ {r}
            preds == { o \in others : \A x \in others : x.timestamp <= o.timestamp }
            applies ==
                /\ CopiesIn(r, S) = 1
                /\ preds # {}
                /\ \A o \in preds :
                      /\ o.timestamp < r.timestamp
                      /\ o.timestamp >= now - 7 * DayMs
                      /\ ClaimLeakPair(r, o, DeviceTable[r.device_id])
        IN  applies => /\ last.op = "checkLeakDetection"
                       /\ Len(NewAlerts) >= 1
                       /\ NewAlerts[1].alert_type = "LEAK_DETECTED"

\* The reading as readSensors took it is at or above the overflow threshold.
FwReadHigh == fwRead.percent_full >= OVERFLOW_THRESHOLD_PERCENT * PctScale

FwSentCount(type) == Cardinality({ i \in 1..Len(fwSent) : fwSent[i] = type })

\* C3: at the end of a loop iteration of the firmware, a reading at or above
\* the overflow threshold taken with the pump on has produced exactly one
\* OVERFLOW alert and the pump is off; the same reading taken with the pump
\* off has produced no OVERFLOW alert and no pump command.
C3_OverflowRule ==
    (fwPc = "delay" /\ FwReadHigh) =>
        /\ fwRead.pump_state => /\ FwSentCount("OVERFLOW") = 1
                                /\ fwStops = 1
                                /\ ~relay
        /\ ~fwRead.pump_state => /\ FwSentCount("OVERFLOW") = 0
                                 /\ fwStops = 0
                                 /\ ~relay

C3_Witness ==
    /\ fwPc = "delay"
    /\ FwReadHigh
    /\ fwRead.pump_state
    /\ FwSentCount("OVERFLOW") = 1
    /\ ~relay

\* C4: at the end of a loop iteration of the firmware, PUMP_FAULT has been
\* sent for the reading exactly when the reading was taken with the pump on
\* and flow_l_min < 0.1, whatever its other fields.
C4_PumpFaultRule ==
    fwPc = "delay" =>
        ((fwRead.pump_state /\ fwRead.flow_l_min < NoFlowLimit)
            <=> FwSentCount("PUMP_FAULT") >= 1)

\* The snapshot fields of a status object are those of a message.
MirrorsPayload(status, data) ==
    /\ status.current_level = data.level_cm
    /\ status.percent_full = data.percent_full
    /\ status.flow_rate = data.flow_l_min
    /\ status.pump_state = (data.pump_state = "ON")
    /\ status.temperature = data.temperature_c
    /\ status.tds = data.tds_ppm
    /\ status.last_update = data.ts * 1000

\* C5: once processTelemetry has returned for the first message of a device,
\* and before any database callback runs, the cache entry of the device is
\* non-null and mirrors the message.
C5_StatusAfterFirstIngestion ==
    (last.op = "processTelemetry" /\ ~last.seen) =>
        /\ deviceStatus[last.data.device_id] # Null
        /\ MirrorsPayload(deviceStatus[last.data.device_id], last.data)

C5_Witness ==
    /\ last.op = "processTelemetry"
    /\ ~last.seen
    /\ last.data.pump_state = "ON"
    /\ \E p \in pendingAnalysis : p.data = last.data
    /\ BagIn(TelemetryRow(last.data), pendingInsert)

\* The snapshot fields of a status object are those of a stored row.
MirrorsRow(status, row) ==
    /\ status.current_level = row.level_cm
    /\ status.percent_full = row.percent_full
    /\ status.flow_rate = row.flow_l_min
    /\ status.pump_state = (row.pump_state = "ON")
    /\ status.temperature = row.temperature_c
    /\ status.tds = row.tds_ppm
    /\ status.last_update = row.timestamp

\* C6: whenever no INSERT is outstanding, the snapshot fields of the cache
\* entry of a device are those of a stored record of the device with the
\* greatest timestamp.
C6_StatusIsNewestRecord ==
    \A d \in Devices :
        (deviceStatus[d] # Null /\ pendingInsert = EmptyBag) =>
            LET S == { r \in BagToSet(telemetry) : r.device_id = d }
            IN  \E r \in S : /\ \A o \in S : o.timestamp <= r.timestamp
                              /\ MirrorsRow(deviceStatus[d], r)

\* C7: in every state a status read can observe, the derived fields of a
\* cache entry are present and were written for the ingestion that created
\* the entry.
C7_NoTornStatus ==
    \A d \in Devices :
        deviceStatus[d] # Null =>
            /\ derivedIng[d] = statusIng[d]
            /\ deviceStatus[d].days_until_empty # Undefined
            /\ deviceStatus[d].consumption_today # Undefined
            /\ deviceStatus[d].consumption_week # Undefined

\* The windows of an analysis over the rows it read, newest first.
ClaimToday(rows, at) ==
    SelectSeq(rows, LAMBDA t : t.timestamp \div DayMs = at \div DayMs)
ClaimLastWeek(rows, at) ==
    SelectSeq(rows, LAMBDA t : t.timestamp >= at - 7 * DayMs)

\* The level falls from every record of the window to the next newer one.
StrictlyDecreasing(w) == \A i \in 1..(Len(w) - 1) : w[i].level_cm < w[i + 1].level_cm

\* |newest - oldest| times the cross-section, in litres.
ClaimVolume(w) ==
    Frac(Abs(w[1].level_cm - w[Len(w)].level_cm) * TankAreaCm2, 1000 * LevelScale)

AnalysisRan == last.op = "runAnalysis" /\ Len(last.rows) >= 2

\* C8: after an analysis, for the window of today and the window of the last
\* 7 days, when the window holds at least 2 records with strictly decreasing
\* level the consumption reported for it is positive and equals
\* |newest.level_cm - oldest.level_cm| times the cross-section.
C8_ConsumptionOfDecreasingWindow ==
    AnalysisRan =>
        LET st == deviceStatus[last.data.device_id]
            wt == ClaimToday(last.rows, last.at)
            ww == ClaimLastWeek(last.rows, last.at)
        IN  /\ (Len(wt) >= 2 /\ StrictlyDecreasing(wt)) =>
                    /\ st.consumption_today.num > 0
                    /\ st.consumption_today = ClaimVolume(wt)
            /\ (Len(ww) >= 2 /\ StrictlyDecreasing(ww)) =>
                    /\ st.consumption_week.num > 0
                    /\ st.consumption_week = ClaimVolume(ww)

C8_Witness ==
    /\ AnalysisRan
    /\ Len(ClaimToday(last.rows, last.at)) = 3
    /\ StrictlyDecreasing(ClaimToday(last.rows, last.at))
    /\ deviceStatus[last.data.device_id].consumption_today.num > 0

IsZero(x) == x # Undefined /\ x # Null /\ x.num = 0

\* C9 as stated: after the analysis callback of a device, a window with fewer
\* than 2 records is reported as consumption 0 in the cache entry, and
\* days_until_empty is null whenever the weekly consumption is 0.
C9_ZeroForShortWindow ==
    last.op = "runAnalysis" =>
        LET st == deviceStatus[last.data.device_id]
        IN  /\ Len(ClaimToday(last.rows, last.at)) < 2 => IsZero(st.consumption_today)
            /\ Len(ClaimLastWeek(last.rows, last.at)) < 2 => IsZero(st.consumption_week)
            /\ IsZero(st.consumption_week) => st.days_until_empty = Null

\* C9 amended: when the 7-day query returns at least 2 rows, a window of
\* today with fewer than 2 records is reported as consumption_today 0 and
\* days_until_empty is null whenever the weekly consumption is 0; when the
\* query returns fewer than 2 rows the analysis writes nothing and the three
\* derived fields of the entry stored by the ingestion stay undefined.
C9_ZeroOrUnset ==
    last.op = "runAnalysis" =>
        LET st == deviceStatus[last.data.device_id]
        IN  IF Len(last.rows) >= 2
            THEN /\ Len(ClaimToday(last.rows, last.at)) < 2 => IsZero(st.consumption_today)
                 /\ st.consumption_week # Undefined
                 /\ IsZero(st.consumption_week) => st.days_until_empty = Null
            ELSE /\ st.consumption_today = Undefined
                 /\ st.consumption_week = Undefined
                 /\ st.days_until_empty = Undefined

C9_Witness ==
    /\ last.op = "runAnalysis"
    /\ Len(last.rows) >= 2
    /\ Len(ClaimToday(last.rows, last.at)) = 1
    /\ IsZero(deviceStatus[last.data.device_id].consumption_today)
    /\ IsZero(deviceStatus[last.data.device_id].consumption_week)
    /\ deviceStatus[last.data.device_id].days_until_empty = Null

\* days_until_empty as the claim computes it.
ClaimDays(percent_full, weekly, capacity) ==
    IF weekly.num <= 0 THEN Null
    ELSE Frac(Max(0, percent_full * capacity * 7 * (weekly.den \div 100)), weekly.num)

SameDays(a, b) ==
    \/ a = b
    \/ a # Null /\ b # Null /\ a # Undefined /\ b # Undefined /\ a.num = 0 /\ b.num = 0

\* C10: after an analysis of a configured device, days_until_empty is null
\* when weekly_consumption / 7 is not positive and otherwise
\* (percent_full / 100 * tank_capacity_liters) / (weekly_consumption / 7),
\* floored at 0, with the capacity of the device's configuration: 0 for
\* percent_full = 0 with positive weekly consumption.
C10_DaysUntilEmpty ==
    (AnalysisRan /\ Configured(last.data.device_id)) =>
        LET st == deviceStatus[last.data.device_id]
        IN  SameDays(st.days_until_empty,
                     ClaimDays(st.percent_full, st.consumption_week,
                               DeviceTable[last.data.device_id].tank_capacity_liters))

\* The alert a resolve request names existed for its device before the request.
ResolveTargetExisted ==
    /\ last.alertId \in 1..Len(last.before)
    /\ last.before[last.alertId].device_id = last.deviceId

\* C11: a resolve request for an alert of the device that is already
\* resolved is answered without an error status (neither 404 nor 5xx), the
\* alert is still resolved, and the store is what it was after the first
\* resolve.
C11_ResolveIdempotent ==
    (last.op = "resolve" /\ ResolveTargetExisted
                         /\ last.before[last.alertId].resolved) =>
        /\ last.status < 400
        /\ alerts[last.alertId].resolved
        /\ alerts = last.before

C11_Witness ==
    /\ last.op = "resolve"
    /\ ResolveTargetExisted
    /\ last.before[last.alertId].resolved
    /\ last.status = 200

\* C12: a resolve request naming an id that no alert of that device has, an
\* id of another device's alert included, is answered 404 and changes no
\* alert.
C12_ResolveNotFound ==
    (last.op = "resolve" /\ ~ResolveTargetExisted) =>
        /\ last.status = 404
        /\ alerts = last.before

C12_Witness ==
    /\ last.op = "resolve"
    /\ last.alertId \in 1..Len(last.before)
    /\ last.before[last.alertId].device_id # last.deviceId
    /\ ~last.before[last.alertId].resolved
    /\ last.status = 404

\* C13: in every step, an alert that appears is unresolved, an alert that
\* exists either stays as it is or, in a resolve request, has resolved moved
\* from false to true and nothing else changed, and no alert disappears.
C13_AlertLifecycle ==
    [][/\ Len(alerts') >= Len(alerts)
       /\ \A i \in 1..Len(alerts) :
              \/ alerts'[i] = alerts[i]
              \/ /\ last'.op = "resolve"
                 /\ ~alerts[i].resolved
                 /\ alerts'[i] = [alerts[i] EXCEPT !.resolved = TRUE]
       /\ \A i \in (Len(alerts) + 1)..Len(alerts') : ~alerts'[i].resolved]_vars

C13_Witness ==
    /\ last.op = "processAlert"
    /\ Len(alerts) >= 2
    /\ \E i \in 1..Len(alerts) :
          alerts[i].resolved /\ alerts[i].alert_type = "LEAK_DETECTED"
    /\ ~alerts[Len(alerts)].resolved

\* The records of a device in the 30 days before an instant.
InLastMonth(d, at) ==
    [r \in { x \in DOMAIN telemetry :
                x.device_id = d /\ x.timestamp >= DaysBefore(at, 30) }
        |-> telemetry[r]]

\* The days_ahead a request asks for.
Requested(query) == (("0" :> 0) @@ ("2" :> 2))[query]

\* The mean of the nonzero per-day consumptions of a history, oldest first;
\* a day's consumption is |newest - oldest| times the cross-section.
ClaimDailyMean(rows) ==
    LET days == { rows[i].timestamp \div DayMs : i \in 1..Len(rows) }
        drop == [d \in days |->
                   LET w == SelectSeq(rows, LAMBDA t : t.timestamp \div DayMs = d)
                   IN  IF Len(w) >= 2 THEN Abs(w[1].level_cm - w[Len(w)].level_cm) ELSE 0]
        nonzero == { d \in days : drop[d] # 0 }
    IN  IF nonzero = {} THEN Frac(0, 1)
        ELSE Frac(SumOf(drop, nonzero) * TankAreaCm2,
                  1000 * LevelScale * Cardinality(nonzero))

\* C14: a forecast request for a device with at least 2 records in the last
\* 30 days is answered with exactly days_ahead entries, for any days_ahead
\* >= 0, dated on consecutive days starting today, each carrying the mean of
\* the nonzero per-day consumptions (0 when there is none).
C14_ForecastEntries ==
    (last.op = "predictions"
        /\ BagCardinality(InLastMonth(last.deviceId, last.at)) >= 2) =>
        LET p == last.body.predictions
        IN  /\ last.status = 200
            /\ Len(p) = Requested(last.query)
            /\ \A i \in 1..Len(p) :
                  /\ p[i].date = (last.at \div DayMs + i - 1) * DayMs
                  /\ p[i].predicted_consumption = ClaimDailyMean(last.rows)

\* C15: a forecast request for a device with fewer than 2 records in the
\* last 30 days, a device without any record included, is answered with an
\* empty prediction list and a message.
C15_InsufficientHistory ==
    (last.op = "predictions"
        /\ BagCardinality(InLastMonth(last.deviceId, last.at)) < 2) =>
        /\ last.status = 200
        /\ last.body.predictions = << >>
        /\ "message" \in DOMAIN last.body

C15_Witness ==
    /\ last.op = "predictions"
    /\ last.deviceId = "tank01"
    /\ BagCardinality(telemetry) >= 2
    /\ BagCardinality(InLastMonth(last.deviceId, last.at)) = 1
    /\ last.body.predictions = << >>

\* The request answered last repeats the forecast request answered before
\* it, on the same stored history and at the same clock.
SameForecastRequest ==
    /\ last.op = "predictions"
    /\ last.prev.op = "predictions"
    /\ last.prev.deviceId = last.deviceId
    /\ last.prev.query = last.query
    /\ last.prev.at = last.at
    /\ last.prev.store = last.before.telemetry

LastIngested ==
    /\ alive
    /\ BagIn(TelemetryRow(last.data), telemetry (+) pendingInsert)
    /\ deviceStatus[last.data.device_id] # Null
    /\ MirrorsPayload(deviceStatus[last.data.device_id], last.data)

\* C17: when onMessage has returned for an unparseable message, on either
\* topic, the telemetry series, the alert store and the status cache are what
\* they were, nothing was raised to the MQTT client and the server runs; and
\* a well-formed telemetry message handled after it is ingested as usual.
C17_MalformedDropped ==
    /\ last.op = "onMessage" =>
          /\ telemetry (+) pendingInsert = last.before.series
          /\ alerts = last.before.alerts
          /\ deviceStatus = last.before.deviceStatus
          /\ ~last.raised
          /\ alive
    /\ (dropped > 0 /\ last.op = "processTelemetry") => LastIngested

C17_Witness ==
    /\ dropped > 0
    /\ last.op = "processTelemetry"
    /\ last.seen
    /\ LastIngested
    /\ \E p \in pendingAnalysis : p.data = last.data

\* C18: once a step of the handling of a telemetry message has failed (the
\* analysis query, a missing device configuration, the insertion of an
\* alert, a notification), the server still handles messages, and a
\* telemetry message handled after the failure is in the series and in the
\* cache.
C18_FailureDoesNotBlockIngestion ==
    faults # {} =>
        /\ alive
        /\ last.op = "processTelemetry" => LastIngested

\* Nothing has been ingested for a device: no telemetry stored or queued, no
\* cache entry, no alert.
NoData(d) ==
    /\ \A r \in DOMAIN (telemetry (+) pendingInsert) : r.device_id # d
    /\ deviceStatus[d] = Null
    /\ \A i \in 1..Len(alerts) : alerts[i].device_id # d

ReadOps == {"status", "telemetry", "alerts", "predictions"}

\* C19: a read request (status, telemetry, alerts, predictions) for a device
\* nothing has been ingested for is answered without an error status and
\* with an empty or default body.
C19_ReadsOfUnknownDevice ==
    (last.op \in ReadOps /\ NoData(last.deviceId)) =>
        /\ last.status < 400
        /\ last.op \in {"telemetry", "alerts"} => last.body = << >>
        /\ last.op = "predictions" => last.body.predictions = << >>

LeakAlertsBefore(d) ==
    { i \in 1..last.alertsBefore :
        alerts[i].device_id = d /\ alerts[i].alert_type = "LEAK_DETECTED" }

\* C21: a detection pass whose ingestion adds no new qualifying drop (the
\* record ingested is in no qualifying pair of the scanned records) inserts
\* no LEAK_DETECTED alert once the operator has resolved the alerts raised for
\* the leak, or once no qualifying pair is left among the scanned records.
C21_LeakAlertStops ==
    (last.op = "checkLeakDetection" /\ Configured(last.data.device_id)) =>
        LET d == last.data.device_id
            scanned == ScannedRows(last.rows)
            q == QualifyingPairs(scanned, DeviceTable[d])
            r == TelemetryRow(last.data)
            addsDrop == \E i \in q : scanned[i] = r \/ scanned[i + 1] = r
            resolved == /\ LeakAlertsBefore(d) # {}
                        /\ \A i \in LeakAlertsBefore(d) : alerts[i].resolved
        IN  (~addsDrop /\ (q = {} \/ resolved)) => Len(NewAlerts) = 0

\* A message of smart_tank_firmware.ino that carries a level the sensor read
\* gave: before the first read the globals are zero.
Measured(message) == message.level_cm >= DISTANCE_EMPTY

\* C22: in every telemetry message either sketch publishes percent_full is
\* between 0 and 100, whatever the sensor returned, and of two published
\* messages with measured levels the one with the greater level_cm does not
\* have the greater percent_full (percent_full falls as the measured distance
\* grows, and equal levels give equal percent_full).
C22_PercentFull ==
    /\ \A i \in DOMAIN fwOut :
          fwOut[i].percent_full >= 0 /\ fwOut[i].percent_full <= 100 * PctScale
    /\ \A i \in DOMAIN fw2Out :
          fw2Out[i].percent_full >= 0 /\ fw2Out[i].percent_full <= 100 * Pct2Scale
    /\ \A i, j \in DOMAIN fwOut :
          fwOut[i].level_cm <= fwOut[j].level_cm =>
              fwOut[i].percent_full >= fwOut[j].percent_full
    /\ \A i, j \in DOMAIN fw2Out :
          (Measured(fw2Out[i]) /\ Measured(fw2Out[j])
              /\ fw2Out[i].level_cm <= fw2Out[j].level_cm) =>
              fw2Out[i].percent_full >= fw2Out[j].percent_full

\* smart_tank_firmware.ino has published a reading below the empty distance
\* and then a reading beyond the full distance.
C22_Witness ==
    /\ Len(fw2Out) = 2
    /\ fw2Out[1].level_cm = DISTANCE_EMPTY
    /\ fw2Out[1].percent_full = 100 * Pct2Scale
    /\ fw2Out[2].level_cm = DISTANCE_FULL
    /\ fw2Out[2].percent_full = 0

\* Ingestion has stopped and the database has nothing left to do: no INSERT
\* and no analysis SELECT is outstanding.
Settled == pendingInsert = EmptyBag /\ pendingAnalysis = {}

\* The number of stored records of a device inside the 7-day window.
InLastWeek(d) ==
    BagCardinality([r \in { x \in DOMAIN telemetry :
                              x.device_id = d /\ x.timestamp >= now - 7 * DayMs }
                       |-> telemetry[r]])

\* C23: once ingestion has stopped and every pending statement and callback
\* has run, the cache entry of a device with at least 2 records in the 7-day
\* window carries days_until_empty, consumption_today and consumption_week
\* computed from the stored series, last ingested record included, and the
\* three are undefined only when the window holds fewer than 2 records.
C23_DerivedFieldsRecomputed ==
    Settled =>
        \A d \in Devices :
            deviceStatus[d] # Null =>
                LET st == deviceStatus[d]
                IN  IF InLastWeek(d) >= 2
                    THEN \E rows \in SelectLastWeek(d) :
                            /\ st.consumption_today = calculateConsumption(rows).today
                            /\ st.consumption_week = calculateConsumption(rows).week
                            /\ st.days_until_empty =
                                  predictDaysUntilEmpty(calculateConsumption(rows), st)
                    ELSE /\ st.consumption_today = Undefined
                         /\ st.consumption_week = Undefined
                         /\ st.days_until_empty = Undefined

\* C24: when processData has set leakAlert for a reading (the flag is up
\* between processData and handleAlerts), there is a previous reading, the
\* pump was off in both readings, and percent_full of the reading is lower
\* than that of the previous one by more than LEAK_THRESHOLD_PERCENT; so
\* neither a rise of the water nor the first reading after boot raises it.
C24_FirmwareLeakOnlyOnDrop ==
    (fwPc = "alerts" /\ leakAlert) =>
        /\ Len(fwOut) = 2
        /\ ~fwOut[1].pump_state
        /\ ~fwRead.pump_state
        /\ fwOut[1].percent_full - fwOut[2].percent_full
              > LEAK_THRESHOLD_PERCENT * PctScale

\* connectMQTT is running.
Connecting == fw2Pc \in DOMAIN ConnectReturn

AtOrAboveOverflow(data) == data.percent_full >= OVERFLOW_THRESHOLD_PERCENT * PctScale

AfterProcessData == fwPc \in {"telemetry", "alerts", "delay", "connect"}

C26_OverflowInterlock ==
    /\ AfterProcessData =>
          /\ ~(relay /\ AtOrAboveOverflow(currentData))
          /\ ~(currentData.pump_state /\ AtOrAboveOverflow(currentData))
    /\ \A i \in 1..Len(fwOut) : ~(fwOut[i].pump_state /\ AtOrAboveOverflow(fwOut[i]))

\* The previous telemetry reported the pump OFF at or above the threshold, the
\* pump was found on at the next read (a pump-on command came in between), and
\* processData stopped it before the telemetry just published.
C26_Witness ==
    /\ fwPc = "alerts"
    /\ Len(fwOut) = 2
    /\ ~fwOut[1].pump_state
    /\ AtOrAboveOverflow(fwOut[1])
    /\ fwRead.pump_state
    /\ AtOrAboveOverflow(fwRead)
    /\ fwStops = 1
    /\ ~relay
    /\ ~fwOut[2].pump_state
    /\ AtOrAboveOverflow(fwOut[2])

\* C27: overflow protection without connectivity.  Every iteration of loop()
\* that starts with the pump running, the broker reachable or not, goes on to
\* read the sensors and to apply the overflow check of processData.
C27_OverflowOffline ==
    (fwPc = "connect" /\ relay) ~> (fwPc = "telemetry")

\* C28: the derived fields of a cached status were written by the analysis
\* callback of the ingestion that created the status object, never by the
\* callback of an earlier ingestion.
C28_DerivedFromSameIngestion ==
    \A d \in Devices :
        (deviceStatus[d] # Null /\ derivedIng[d] # 0) => derivedIng[d] = statusIng[d]

\* C29: the startup load never replaces a status stored by processTelemetry
\* by one built from an older record: when a load callback overwrites the
\* status of an ingested message, the last_update it stores is not earlier.
C29_StartupLoadKeepsFresher ==
    [][\A d \in Devices :
          (statusIng[d] # 0 /\ statusIng'[d] = 0) =>
              deviceStatus'[d].last_update >= deviceStatus[d].last_update]_vars

\* C30: pump control with hysteresis of smart_tank_firmware.ino.  Every
\* sensor read leaves the pump on when percent_full < 20, off when
\* percent_full > 80 and as it was in between, whatever a command had set
\* before; the relay follows pumpState; a command whose action is neither
\* PUMP_ON nor PUMP_OFF leaves the pump as it was.
SensorRead == \E distance \in PumpDistances : readUltrasonicSensor(distance)

CommandHandled == Len(received') = Len(received) + 1

C30_Hysteresis ==
    /\ [](relayPin = pumpState)
    /\ [][SensorRead =>
            /\ tankPercent' < PumpOnBelow * Pct2Scale => pumpState'
            /\ tankPercent' > PumpOffAbove * Pct2Scale => ~pumpState'
            /\ (/\ tankPercent' >= PumpOnBelow * Pct2Scale
                /\ tankPercent' <= PumpOffAbove * Pct2Scale) => pumpState' = pumpState]_vars
    /\ [][(/\ CommandHandled
           /\ received'[Len(received')].action \notin {"PUMP_ON", "PUMP_OFF"})
              => UNCHANGED <<pumpState, relayPin>>]_vars

\* The command handled last switched the pump on, the read that followed
\* found the tank above 80 percent and switched it off; before that, a
\* command with an unknown action was handled.
C30_Witness ==
    /\ fw2Pc = "send"
    /\ Len(received) >= 2
    /\ received[Len(received) - 1].action = "PUMP_TOGGLE"
    /\ received[Len(received)].action = "PUMP_ON"
    /\ tankPercent > PumpOffAbove * Pct2Scale
    /\ tankLevelCm # 0
    /\ flowRateLMin > 0
    /\ ~pumpState
    /\ ~relayPin

====
